---- MODULE Spec2Model ----
(***************************************************************************)
(* Model of atest's test-reference resolution engine:                      *)
(*   - test_finders/test_finder_utils.py   split_methods                   *)
(*   - cli_translator.py                   reference classification,       *)
(*                                         finders, dispatcher, translate  *)
(*   - test_runners/atest_tf_test_runner.py  _flatten_test_filters,        *)
(*                                           _flatten_test_infos           *)
(* Python strings are sequences of one-character strings, so that split,   *)
(* startswith and "in" are computed character by character.                *)
(***************************************************************************)
EXTENDS Integers, Sequences, FiniteSets, TLC

(***************************************************************************)
(* Bounds of the model.                                                    *)
(***************************************************************************)
\* longest user input given to split_methods
MaxInputLen == 5
\* longest test reference given to _get_test_reference_types
MaxRefLen == 5
\* most filters in the set given to _flatten_test_filters
MaxFilters == 3
\* most TestInfos in the list given to _flatten_test_infos
MaxInfos == 3
\* most references in the list given to translate
MaxTests == 2
\* events of one connection
MaxEvents == 2
\* events given to _process_event in one test run
MaxProcessed == 6
\* timeouts of the socket function that are counted
MaxTimeouts == 6
\* iterations asked for in extra_args
MaxIterations == 3
\* arguments of one atest command
MaxArgs == 2
\* atest commands run one after the other
MaxRuns == 2

(***************************************************************************)
(* CLITranslator.module_info, loaded from module-info.json at construction, *)
(* and the files under the directories the finders search.                 *)
(***************************************************************************)
VARIABLES module_info, repo_files

\* characters of the inputs of split_methods: two letters and the separators
SplitChars == {"A", "m", "#", ","}
\* characters of test references: a letter and the characters the
\* classifier looks at
RefChars == {"a", ".", "/", ":"}

RECURSIVE StringsUpTo(_, _)
\* all strings over alphabet of length at most n
StringsUpTo(alphabet, n) ==
    IF n = 0 THEN {<<>>}
    ELSE LET shorter == StringsUpTo(alphabet, n - 1)
         IN  shorter \cup {Append(s, c) : s \in {t \in shorter : Len(t) = n - 1},
                                          c \in alphabet}

Range(s) == {s[i] : i \in DOMAIN s}

(***************************************************************************)
(* Python string primitives.                                               *)
(***************************************************************************)
\* c in s, for a one-character c
Contains(s, c) == \E i \in DOMAIN s : s[i] = c

\* s.startswith(c), for a one-character c
StartsWith(s, c) == Len(s) >= 1 /\ s[1] = c

\* index of the first occurrence of c in s, 0 when there is none
IndexOf(s, c) ==
    IF Contains(s, c) THEN CHOOSE i \in DOMAIN s :
                               s[i] = c /\ \A j \in 1..(i - 1) : s[j] # c
    ELSE 0

RECURSIVE StrSplit(_, _)
\* s.split(sep): the parts between the separators, empty parts included
StrSplit(s, sep) ==
    LET i == IndexOf(s, sep)
    IN  IF i = 0 THEN <<s>>
        ELSE <<SubSeq(s, 1, i - 1)>> \o StrSplit(SubSeq(s, i + 1, Len(s)), sep)

(***************************************************************************)
(* test_finder_utils.split_methods                                         *)
(***************************************************************************)
\* the result before split_methods has been called
NoSplit == [ref |-> <<>>, methods |-> {}, raised |-> "pending"]

\* split_methods without the split of the method clause on ','
split_methods_no_comma(input) ==
    LET parts == StrSplit(input, "#")
    IN  IF Len(parts) = 1
        THEN [ref |-> parts[1], methods |-> {}, raised |-> "none"]
        ELSE IF Len(parts) = 2
        THEN [ref |-> parts[1], methods |-> {parts[2]}, raised |-> "none"]
        ELSE [ref |-> <<>>, methods |-> {}, raised |-> "TooManyMethodsError"]

\* split_methods that keeps the first clause of an input with several '#'
split_methods_first_clause(input) ==
    LET parts == StrSplit(input, "#")
    IN  IF Len(parts) = 1
        THEN [ref |-> parts[1], methods |-> {}, raised |-> "none"]
        ELSE [ref |-> parts[1], methods |-> Range(StrSplit(parts[2], ",")),
              raised |-> "none"]

split_methods(input) ==
    LET parts == StrSplit(input, "#")
    IN  IF Len(parts) = 1
        THEN [ref |-> parts[1], methods |-> {}, raised |-> "none"]
        ELSE IF Len(parts) = 2
        THEN [ref |-> parts[1], methods |-> Range(StrSplit(parts[2], ",")),
              raised |-> "none"]
        ELSE [ref |-> <<>>, methods |-> {}, raised |-> "TooManyMethodsError"]

(***************************************************************************)
(* cli_translator.REFERENCE_TYPE and _get_test_reference_types             *)
(***************************************************************************)
REFERENCE_TYPE == <<"MODULE", "CLASS", "MODULE_CLASS", "PACKAGE",
                    "MODULE_PACKAGE", "FILE_PATH", "INTEGRATION", "SUITE">>

\* the classifier with the '/' rule tried before the leading '.' rule
get_test_reference_types_slash_first(test_reference) ==
    IF Contains(test_reference, "/")
    THEN <<"FILE_PATH", "INTEGRATION", "SUITE">>
    ELSE IF StartsWith(test_reference, ".") THEN <<"FILE_PATH">>
    ELSE IF Contains(test_reference, ":")
    THEN IF Contains(test_reference, ".")
         THEN <<"MODULE_CLASS", "MODULE_PACKAGE">>
         ELSE <<"MODULE_CLASS">>
    ELSE IF Contains(test_reference, ".") THEN <<"CLASS", "PACKAGE">>
    ELSE <<"MODULE", "CLASS">>

\* the classifier with MODULE_PACKAGE listed before MODULE_CLASS
get_test_reference_types_package_first(test_reference) ==
    IF StartsWith(test_reference, ".") THEN <<"FILE_PATH">>
    ELSE IF Contains(test_reference, "/")
    THEN <<"FILE_PATH", "INTEGRATION", "SUITE">>
    ELSE IF Contains(test_reference, ":")
    THEN IF Contains(test_reference, ".")
         THEN <<"MODULE_PACKAGE", "MODULE_CLASS">>
         ELSE <<"MODULE_CLASS">>
    ELSE IF Contains(test_reference, ".") THEN <<"CLASS", "PACKAGE">>
    ELSE <<"MODULE", "CLASS">>

\* the classifier testing ':' before '/'
get_test_reference_types_colon_first(test_reference) ==
    IF StartsWith(test_reference, ".") THEN <<"FILE_PATH">>
    ELSE IF Contains(test_reference, ":")
    THEN IF Contains(test_reference, ".")
         THEN <<"MODULE_CLASS", "MODULE_PACKAGE">>
         ELSE <<"MODULE_CLASS">>
    ELSE IF Contains(test_reference, "/")
    THEN <<"FILE_PATH", "INTEGRATION", "SUITE">>
    ELSE IF Contains(test_reference, ".") THEN <<"CLASS", "PACKAGE">>
    ELSE <<"MODULE", "CLASS">>

get_test_reference_types(test_reference) ==
    IF StartsWith(test_reference, ".") THEN <<"FILE_PATH">>
    ELSE IF Contains(test_reference, "/")
    THEN <<"FILE_PATH", "INTEGRATION", "SUITE">>
    ELSE IF Contains(test_reference, ":")
    THEN IF Contains(test_reference, ".")
         THEN <<"MODULE_CLASS", "MODULE_PACKAGE">>
         ELSE <<"MODULE_CLASS">>
    ELSE IF Contains(test_reference, ".") THEN <<"CLASS", "PACKAGE">>
    ELSE <<"MODULE", "CLASS">>

(***************************************************************************)
(* test_info.TestFilter and AtestTradefedTestRunner._flatten_test_filters  *)
(***************************************************************************)
\* class names and test (module) names, each list in sorted order
ClassNames == <<"classA", "classB">>
ModuleNames == <<"Module1", "Module2">>
Methods == {"Method1", "Method2"}

TestFilter(class_name, methods) ==
    [class_name |-> class_name, methods |-> methods]

\* atest_utils.sort_and_group(iterable, key): the items sorted by key
\* (a stable sort, order being the sorted list of the possible keys) and
\* grouped by key, one <<key, group>> per key that occurs; key is the
\* function from the items to their keys
sort_and_group(iterable, key, order) ==
    LET occurs(k) == \E i \in DOMAIN iterable : key[iterable[i]] = k
        keys == SelectSeq(order, occurs)
    IN  [n \in DOMAIN keys |->
            LET has_key(x) == key[x] = keys[n]
            IN  [key |-> keys[n], group |-> SelectSeq(iterable, has_key)]]

RECURSIVE methods_loop(_, _, _)
\* the loop over one class's group from its i-th filter on; a filter
\* without methods empties the method set and ends the loop
methods_loop(group, i, methods) ==
    IF i > Len(group) THEN methods
    ELSE IF group[i].methods = {} THEN {}
    ELSE methods_loop(group, i + 1, methods \cup group[i].methods)

RECURSIVE methods_loop_no_break(_, _, _)
\* the loop without its break: a whole-class filter empties the method set
\* but later filters of the group are added again
methods_loop_no_break(group, i, methods) ==
    IF i > Len(group) THEN methods
    ELSE IF group[i].methods = {} THEN methods_loop_no_break(group, i + 1, {})
    ELSE methods_loop_no_break(group, i + 1, methods \cup group[i].methods)

\* the method set of one group with the last filter winning instead of
\* the union
group_methods_last_wins(group) ==
    IF \E i \in DOMAIN group : group[i].methods = {} THEN {}
    ELSE group[Len(group)].methods

\* the method set of one group without the break of the loop
group_methods_no_break(group) == methods_loop_no_break(group, 1, {})

\* the method set computed for the group of one class
group_methods(group) == methods_loop(group, 1, {})

\* filters is the iteration order of the set of filters
flatten_test_filters(filters) ==
    LET key == [x \in Range(filters) |-> x.class_name]
        groups == sort_and_group(filters, key, ClassNames)
    IN  {TestFilter(groups[n].key, group_methods(groups[n].group)) :
            n \in DOMAIN groups}

(***************************************************************************)
(* test_info.TestInfo and AtestTradefedTestRunner._flatten_test_infos      *)
(***************************************************************************)
TI_FILTER == "filter"
TI_REL_CONFIG == "rel_config"

TestInfo(test_name, test_runner, build_targets, data) ==
    [test_name |-> test_name, test_runner |-> test_runner,
     build_targets |-> build_targets, data |-> data]

\* the dict {}
EmptyDict == [k \in {} |-> {}]

\* a.update(b): the keys of b overwrite those of a
dict_update(a, b) == b @@ a

\* data.get(TI_FILTER) is neither None nor an empty set
has_filters(data) == TI_FILTER \in DOMAIN data /\ data[TI_FILTER] # {}

\* the locals of the loop over one module's group, before its first member
GroupStart == [no_filters |-> FALSE, filters |-> {}, test_runner |-> "None",
               build_targets |-> {}, data |-> EmptyDict]

RECURSIVE infos_loop_not_sticky(_, _, _)
\* the loop with "if not test_filters" alone: a member without filters
\* empties the filters, but members after it add theirs again
infos_loop_not_sticky(group, i, st) ==
    IF i > Len(group) THEN st
    ELSE LET test_info_i == group[i]
             upd == [st EXCEPT
                       !.data = dict_update(st.data, test_info_i.data),
                       !.test_runner = test_info_i.test_runner,
                       !.build_targets = @ \cup test_info_i.build_targets]
         IN  IF ~has_filters(test_info_i.data)
             THEN infos_loop_not_sticky(group, i + 1,
                      [upd EXCEPT !.no_filters = TRUE, !.filters = {}])
             ELSE infos_loop_not_sticky(group, i + 1,
                      [upd EXCEPT !.filters = @ \cup test_info_i.data[TI_FILTER]])

RECURSIVE infos_loop_first_runner(_, _, _)
\* the loop keeping the test_runner of the first member of the group
infos_loop_first_runner(group, i, st) ==
    IF i > Len(group) THEN st
    ELSE LET test_info_i == group[i]
             upd == [st EXCEPT
                       !.data = dict_update(st.data, test_info_i.data),
                       !.test_runner = IF i = 1 THEN test_info_i.test_runner
                                       ELSE @,
                       !.build_targets = @ \cup test_info_i.build_targets]
         IN  IF ~has_filters(test_info_i.data) \/ st.no_filters
             THEN infos_loop_first_runner(group, i + 1,
                      [upd EXCEPT !.no_filters = TRUE, !.filters = {}])
             ELSE infos_loop_first_runner(group, i + 1,
                      [upd EXCEPT !.filters = @ \cup test_info_i.data[TI_FILTER]])

RECURSIVE infos_loop(_, _, _)
\* the loop over one module's group from its i-th member on
infos_loop(group, i, st) ==
    IF i > Len(group) THEN st
    ELSE LET test_info_i == group[i]
             upd == [st EXCEPT
                       !.data = dict_update(st.data, test_info_i.data),
                       !.test_runner = test_info_i.test_runner,
                       !.build_targets = @ \cup test_info_i.build_targets]
         IN  IF ~has_filters(test_info_i.data) \/ st.no_filters
             THEN infos_loop(group, i + 1,
                      [upd EXCEPT !.no_filters = TRUE, !.filters = {}])
             ELSE infos_loop(group, i + 1,
                      [upd EXCEPT !.filters = @ \cup test_info_i.data[TI_FILTER]])

\* the orders in which the elements of the set S can be iterated
IterationOrders(S) ==
    {q \in [1..Cardinality(S) -> S] : \A x \in S : \E i \in DOMAIN q : q[i] = x}

\* the TestInfos one module's group can be merged into, one for each order
\* in which _flatten_test_filters may iterate the collected set of filters
flatten_group(module, group) ==
    LET st == infos_loop(group, 1, GroupStart)
    IN  {TestInfo(module, st.test_runner, st.build_targets,
                  (TI_FILTER :> flatten_test_filters(q)) @@ st.data) :
            q \in IterationOrders(st.filters)}

RECURSIVE one_of_each(_, _)
\* the sets made of one element of each of choices[i..]
one_of_each(choices, i) ==
    IF i > Len(choices) THEN {{}}
    ELSE {{x} \cup rest : x \in choices[i], rest \in one_of_each(choices, i + 1)}

\* test_infos is the list (or the iteration order of the set) of TestInfos;
\* the value is the set of the results the call can return
flatten_test_infos(test_infos) ==
    LET key == [x \in Range(test_infos) |-> x.test_name]
        groups == sort_and_group(test_infos, key, ModuleNames)
    IN  one_of_each([n \in DOMAIN groups |->
                        flatten_group(groups[n].key, groups[n].group)], 1)

(***************************************************************************)
(* The repository and the module-info.json the translator runs on.  A path *)
(* is the sequence of its components from "/", a component being a string. *)
(***************************************************************************)
JavaExt == <<".", "j", "a", "v", "a">>
ApkExt == <<".", "a", "p", "k">>
TEST_CONFIG == <<"AndroidTest.xml">>
MODULES_IN == <<"MODULES-IN-">>
RUN_CMD == <<"atest_tradefed.sh run commandAndExit template/local_min --template:map test=">>
MAX_TEST_CHOICES_FOR_USER_INPUT == 5
\* class_name of a TestInfo found without a class
None == <<"None">>

\* root_dir is /r, which is also the working directory
root_dir == << <<"r">> >>
cwd == root_dir

\* /r/p (module M) with package directory s, /r/q (module N), /r/n without
\* a test config (module K), /r/u with a test config and no module, and
\* /rx next to the root
RepoDirs ==
    { <<>>, root_dir,
      << <<"r">>, <<"p">> >>, << <<"r">>, <<"p">>, <<"s">> >>,
      << <<"r">>, <<"q">> >>, << <<"r">>, <<"n">> >>, << <<"r">>, <<"u">> >>,
      << <<"r", "x">> >> }

RepoFiles ==
    { << <<"r">>, <<"p">>, TEST_CONFIG >>,
      << <<"r">>, <<"p">>, <<"s">>, <<"C">> \o JavaExt >>,
      << <<"r">>, <<"p">>, <<"s">>, <<"D">> \o JavaExt >>,
      << <<"r">>, <<"q">>, TEST_CONFIG >>,
      << <<"r">>, <<"q">>, <<"D">> \o JavaExt >>,
      << <<"r">>, <<"n">>, <<"E">> \o JavaExt >>,
      << <<"r">>, <<"u">>, TEST_CONFIG >>,
      << <<"r">>, <<"u">>, <<"F">> \o JavaExt >> }

\* the values of the option tags of each AndroidTest.xml
OptionValues(config_file) ==
    IF config_file = << <<"r">>, <<"p">>, TEST_CONFIG >>
    THEN {<<"M">> \o ApkExt, <<"d", "/", "x">> \o ApkExt, <<"v">>}
    ELSE IF config_file = << <<"r">>, <<"q">>, TEST_CONFIG >>
    THEN {<<"N">> \o ApkExt}
    ELSE {}

\* module-info.json: the module names with their 'path' lists, the paths
\* relative to the root
ModuleInfoJson ==
    [name \in {<<"M">>, <<"N">>, <<"K">>} |->
        [path |-> << IF name = <<"M">> THEN << <<"p">> >>
                     ELSE IF name = <<"N">> THEN << <<"q">> >>
                     ELSE << <<"n">> >> >>]]

\* a module-info.json with one more module, L, whose entry has no 'path'
ModuleInfoNoPath ==
    [name \in DOMAIN ModuleInfoJson \cup {<<"L">>} |->
        IF name = <<"L">> THEN [class |-> <<"APPS">>]
        ELSE ModuleInfoJson[name]]

\* info.get('path', [])
get_path(info) == IF "path" \in DOMAIN info THEN info.path ELSE <<>>

(***************************************************************************)
(* os.path and string primitives of the finders.                           *)
(***************************************************************************)
\* s.replace(a, b) for one-character a and b
Replace(s, a, b) == [i \in DOMAIN s |-> IF s[i] = a THEN b ELSE s[i]]

IsPrefix(a, b) == Len(a) <= Len(b) /\ SubSeq(b, 1, Len(a)) = a

EndsWith(s, suffix) ==
    Len(suffix) <= Len(s) /\ SubSeq(s, Len(s) - Len(suffix) + 1, Len(s)) = suffix

RECURSIVE Join(_, _)
\* sep.join(parts)
Join(parts, sep) ==
    IF Len(parts) = 0 THEN <<>>
    ELSE IF Len(parts) = 1 THEN parts[1]
    ELSE parts[1] \o <<sep>> \o Join(Tail(parts), sep)

\* the string of an absolute path
PathStr(path) == <<"/">> \o Join(path, "/")

dirname(path) == IF path = <<>> THEN <<>> ELSE SubSeq(path, 1, Len(path) - 1)

RECURSIVE normalize(_, _, _)
\* the components parts[i..] applied to the directory acc
normalize(parts, i, acc) ==
    IF i > Len(parts) THEN acc
    ELSE IF parts[i] = <<>> \/ parts[i] = <<".">> THEN normalize(parts, i + 1, acc)
    ELSE IF parts[i] = <<".", ".">> THEN normalize(parts, i + 1, dirname(acc))
    ELSE normalize(parts, i + 1, Append(acc, parts[i]))

\* os.path.realpath(path), the repository holding no symbolic link
realpath(path) ==
    normalize(StrSplit(path, "/"), 1, IF StartsWith(path, "/") THEN <<>> ELSE cwd)

isdir(path) == path \in RepoDirs
isfile(path) == path \in repo_files
exists(path) == isdir(path) \/ isfile(path)

\* os.path.relpath(path, start)
relpath(path, start) ==
    LET common == CHOOSE k \in 0..Len(start) :
                      /\ k <= Len(path)
                      /\ SubSeq(path, 1, k) = SubSeq(start, 1, k)
                      /\ \A j \in (k + 1)..Len(start) :
                            j > Len(path) \/ SubSeq(path, 1, j) # SubSeq(start, 1, j)
    IN  [i \in 1..(Len(start) - common) |-> <<".", ".">>]
            \o SubSeq(path, common + 1, Len(path))

\* os.path.splitext(file_name)[0]
splitext_root(file_name) ==
    LET dots == {i \in DOMAIN file_name :
                    /\ file_name[i] = "."
                    /\ \E j \in 1..(i - 1) : file_name[j] # "."}
    IN  IF dots = {} THEN file_name
        ELSE SubSeq(file_name, 1, (CHOOSE i \in dots : \A j \in dots : j <= i) - 1)

(***************************************************************************)
(* Results of the helpers and finders: a returned value, a raised          *)
(* exception, or a loop that does not end.                                 *)
(***************************************************************************)
Return(v) == [kind |-> "return", value |-> v, error |-> "none"]
Raise(e, none_value) == [kind |-> "raise", value |-> none_value, error |-> e]
Hang(none_value) == [kind |-> "hang", value |-> none_value, error |-> "none"]

\* cli_translator.TestInfo
TranslatorTestInfo(module_name, rel_module_dir, class_name) ==
    [module_name |-> module_name, rel_module_dir |-> rel_module_dir,
     class_name |-> class_name]

\* the value of a finder that returned None or did not return
NoInfo == TranslatorTestInfo(<<>>, <<>>, <<>>)

(***************************************************************************)
(* CLITranslator helpers.                                                  *)
(***************************************************************************)
is_equal_or_sub_dir(sub_dir, parent_dir) ==
    /\ isdir(sub_dir)
    /\ isdir(parent_dir)
    /\ IsPrefix(PathStr(parent_dir), PathStr(sub_dir))

RECURSIVE parent_module_loop_root_included(_)
\* the upward walk looking for the file in the root directory too
parent_module_loop_root_included(current_dir) ==
    IF isfile(Append(current_dir, TEST_CONFIG))
    THEN Return(relpath(current_dir, root_dir))
    ELSE IF current_dir = root_dir THEN Raise("TestWithNoModuleError", <<>>)
    ELSE IF current_dir = <<>> THEN Hang(<<>>)
    ELSE parent_module_loop_root_included(dirname(current_dir))

RECURSIVE parent_module_loop(_)
\* the upward walk of _find_parent_module_dir from current_dir
parent_module_loop(current_dir) ==
    IF current_dir = root_dir THEN Raise("TestWithNoModuleError", <<>>)
    ELSE IF isfile(Append(current_dir, TEST_CONFIG))
    THEN Return(relpath(current_dir, root_dir))
    ELSE IF current_dir = <<>> THEN Hang(<<>>)
    ELSE parent_module_loop(dirname(current_dir))

find_parent_module_dir(start_dir) ==
    IF ~is_equal_or_sub_dir(start_dir, root_dir) THEN Raise("ValueError", <<>>)
    ELSE parent_module_loop(start_dir)

\* the lines a find command prints under root_dir for class_name
find_output(class_name) ==
    IF Contains(class_name, ".")
    THEN {f \in repo_files \cup RepoDirs :
            /\ IsPrefix(root_dir, f)
            /\ EndsWith(PathStr(f), Replace(class_name, ".", "/") \o JavaExt)}
    ELSE {f \in repo_files :
            /\ IsPrefix(root_dir, f)
            /\ f[Len(f)] = class_name \o JavaExt}

\* the results _extract_test_dir can have on the printed lines: with several
\* lines the user enters the number of one of them, or a number of none
extract_test_dir(output) ==
    IF Cardinality(output) > MAX_TEST_CHOICES_FOR_USER_INPUT
    THEN {Raise("TooManyTestsFoundError", <<>>)}
    ELSE IF output = {} THEN {Return(<<>>)}
    ELSE {Return(dirname(f)) : f \in output}
            \cup (IF Cardinality(output) > 1 THEN {Raise("IndexError", <<>>)}
                  ELSE {})

\* the results _get_module_name can have: module_info is iterated in any
\* order and the first module with the path is returned; the first element
\* of the empty list of a module without path, met before, is an IndexError
get_module_name(rel_module_path) ==
    LET no_path == {name \in DOMAIN module_info :
                       get_path(module_info[name]) = <<>>}
        names == {name \in DOMAIN module_info \ no_path :
                     get_path(module_info[name])[1] = rel_module_path}
    IN  {Return(name) : name \in names}
          \cup (IF no_path # {} THEN {Raise("IndexError", <<>>)} ELSE {})
          \cup (IF names = {} /\ no_path = {}
                THEN {Raise("UnregisteredModuleError", <<>>)} ELSE {})

\* the option values of the AndroidTest.xml that name an apk, without ".apk"
get_targets_from_xml(rel_module_path) ==
    LET file_path == root_dir \o rel_module_path \o <<TEST_CONFIG>>
    IN  {SubSeq(v, 1, Len(v) - Len(ApkExt)) :
            v \in {o \in OptionValues(file_path) :
                      /\ Len(o) > Len(ApkExt)
                      /\ EndsWith(o, ApkExt)
                      /\ ~Contains(o, "/")}}

(***************************************************************************)
(* The finders, each giving the set of the results it can have.            *)
(***************************************************************************)
\* the TestInfo of a test found in rel_module_dir, or what
\* _get_module_name raised
with_module_name(rel_module_dir, class_name) ==
    {IF m.kind = "return"
     THEN Return(TranslatorTestInfo(m.value, rel_module_dir, class_name))
     ELSE Raise(m.error, NoInfo) : m \in get_module_name(rel_module_dir)}

\* from the directory of the test to its TestInfo
test_in_dir(test_dir, class_name) ==
    LET parent == find_parent_module_dir(test_dir)
    IN  IF parent.kind = "raise" THEN {Raise(parent.error, NoInfo)}
        ELSE IF parent.kind = "hang" THEN {Hang(NoInfo)}
        ELSE with_module_name(parent.value, class_name)

\* info['path'] of a module without path is a KeyError
find_test_by_module_name(module_name) ==
    IF module_name \notin DOMAIN module_info THEN {Return(NoInfo)}
    ELSE IF "path" \notin DOMAIN module_info[module_name]
    THEN {Raise("KeyError", NoInfo)}
    ELSE {Return(TranslatorTestInfo(module_name,
                                    module_info[module_name].path[1], None))}

find_test_by_class_name(class_name) ==
    UNION {IF d.kind = "raise" THEN {Raise(d.error, NoInfo)}
           ELSE IF d.value = <<>> THEN {Return(NoInfo)}
           ELSE test_in_dir(d.value, class_name) :
              d \in extract_test_dir(find_output(class_name))}

find_test_by_path(path) ==
    LET real == realpath(path)
        dir_path == IF isfile(real) THEN dirname(real) ELSE real
        class_name == IF isfile(real) THEN splitext_root(real[Len(real)])
                      ELSE None
    IN  IF ~exists(real) THEN {Return(NoInfo)}
        ELSE test_in_dir(dir_path, class_name)

\* ref_type_to_func_map; the other reference types have no finder
SupportedTypes == {"MODULE", "CLASS", "FILE_PATH"}

ref_type_to_func(ref_type, test_name) ==
    IF ref_type = "MODULE" THEN find_test_by_module_name(test_name)
    ELSE IF ref_type = "CLASS" THEN find_test_by_class_name(test_name)
    ELSE find_test_by_path(test_name)

(***************************************************************************)
(* _get_test_info, _generate_build_targets, _generate_run_command          *)
(***************************************************************************)
RECURSIVE get_test_info_no_return(_, _, _)
\* _get_test_info going on with the next reference type after a finder
\* found the test
get_test_info_no_return(test_name, types, i) ==
    IF i > Len(types) THEN {[result |-> Return(NoInfo), calls |-> <<>>]}
    ELSE IF types[i] \notin SupportedTypes
    THEN get_test_info_no_return(test_name, types, i + 1)
    ELSE UNION {LET call == [index |-> i, ref_type |-> types[i], outcome |-> r]
                IN  IF \/ r.kind = "hang"
                       \/ r.kind = "raise" /\ r.error # "KeyError"
                    THEN {[result |-> r, calls |-> <<call>>]}
                    ELSE {[result |-> IF rest.result = Return(NoInfo)
                                         /\ r.kind = "return"
                                      THEN r ELSE rest.result,
                           calls |-> <<call>> \o rest.calls] :
                            rest \in get_test_info_no_return(test_name, types,
                                                             i + 1)} :
                   r \in ref_type_to_func(types[i], test_name)}

RECURSIVE get_test_info(_, _, _)
\* the results of the loop of _get_test_info from the i-th reference type
\* on, each with the finder calls made, in the order they were made; a
\* KeyError, raised by the lookup of a type without finder or by the finder,
\* is caught and the loop goes on
get_test_info(test_name, types, i) ==
    IF i > Len(types) THEN {[result |-> Return(NoInfo), calls |-> <<>>]}
    ELSE IF types[i] \notin SupportedTypes
    THEN get_test_info(test_name, types, i + 1)
    ELSE UNION {LET call == [index |-> i, ref_type |-> types[i], outcome |-> r]
                IN  IF \/ r.kind = "return" /\ r.value # NoInfo
                       \/ r.kind = "hang"
                       \/ r.kind = "raise" /\ r.error # "KeyError"
                    THEN {[result |-> r, calls |-> <<call>>]}
                    ELSE {[result |-> rest.result,
                           calls |-> <<call>> \o rest.calls] :
                            rest \in get_test_info(test_name, types, i + 1)} :
                   r \in ref_type_to_func(types[i], test_name)}

\* the build targets of a found test; parsing an AndroidTest.xml that does
\* not exist raises IOError
generate_build_targets(test_info) ==
    IF ~isfile(root_dir \o test_info.rel_module_dir \o <<TEST_CONFIG>>)
    THEN Raise("IOError", {})
    ELSE Return({<<"tradefed-all">>,
                 MODULES_IN \o Replace(Join(test_info.rel_module_dir, "/"),
                                       "/", "-")}
                   \cup get_targets_from_xml(test_info.rel_module_dir))

generate_run_command(test_info) == RUN_CMD \o test_info.module_name

(***************************************************************************)
(* The module index of ModuleFinder: module_info.ModuleInfo over the       *)
(* entries of module-info.json.                                            *)
(***************************************************************************)
\* one entry of module-info.json
ModuleEntry(name, path, installed, class, suites, auto_test_config) ==
    [module_name |-> name, path |-> <<path>>, installed |-> installed,
     class |-> <<class>>, compatibility_suites |-> suites,
     auto_test_config |-> auto_test_config, test_config |-> <<>>]

\* M and the library K in p, N and A (auto-generated config) in q, the
\* robolectric test R in n, the vts test V in u
ModuleIndex ==
    [name \in {<<"M">>, <<"K">>, <<"N">>, <<"A">>, <<"R">>, <<"V">>} |->
        IF name = <<"M">>
        THEN ModuleEntry(name, << <<"p">> >>, <<"i">>, "APPS", <<>>, <<>>)
        ELSE IF name = <<"K">>
        THEN ModuleEntry(name, << <<"p">> >>, <<>>, "JAVA_LIBRARIES", <<>>, <<>>)
        ELSE IF name = <<"N">>
        THEN ModuleEntry(name, << <<"q">> >>, <<"i">>, "APPS",
                         <<"device-tests">>, <<FALSE>>)
        ELSE IF name = <<"A">>
        THEN ModuleEntry(name, << <<"q">> >>, <<"i">>, "APPS", <<>>, <<TRUE>>)
        ELSE IF name = <<"R">>
        THEN ModuleEntry(name, << <<"n">> >>, <<"i">>, "ROBOLECTRIC", <<>>, <<>>)
        ELSE ModuleEntry(name, << <<"u">> >>, <<"i">>, "NATIVE_TESTS",
                         <<"vts", "tests">>, <<>>)]

\* mod_info.get(key, [])
dict_get(mod_info, key) ==
    IF key \in DOMAIN mod_info THEN mod_info[key] ELSE <<>>

\* ModuleInfo.get_module_info: the entry of the module, EmptyDict for None
get_module_info(mod_name) ==
    IF mod_name \in DOMAIN module_info THEN module_info[mod_name] ELSE EmptyDict

\* ModuleInfo.is_module
is_module(mod_name) == mod_name \in DOMAIN module_info

\* ModuleInfo.is_testable_module: the module has an installed artifact and
\* its class is not one of a library
is_testable_module(mod_info) ==
    /\ mod_info # EmptyDict
    /\ dict_get(mod_info, "installed") # <<>>
    /\ "JAVA_LIBRARIES" \notin Range(dict_get(mod_info, "class"))

\* ModuleInfo.get_paths
get_paths(mod_name) == dict_get(get_module_info(mod_name), "path")

\* ModuleInfo.get_module_names: the modules of the directory
get_module_names(rel_module_path) ==
    {name \in DOMAIN module_info :
        /\ dict_get(module_info[name], "path") # <<>>
        /\ module_info[name].path[1] = rel_module_path}

\* ModuleInfo.is_robolectric_test
is_robolectric_test(mod_name) ==
    "ROBOLECTRIC" \in Range(dict_get(get_module_info(mod_name), "class"))

\* ModuleInfo.get_robolectric_test_name: the module that runs the test
get_robolectric_test_name(mod_name) == mod_name

\* ModuleInfo.is_auto_gen_test_config
is_auto_gen_test_config(mod_name) ==
    dict_get(get_module_info(mod_name), "auto_test_config") = <<TRUE>>

(***************************************************************************)
(* ModuleFinder: the descriptors it builds and its build targets.          *)
(***************************************************************************)
TEST_RUNNER == "AtestTradefedTestRunner"
ROBOLECTRIC_RUNNER == "RobolectricTestRunner"
VTS_TEST_RUNNER == "VtsTradefedTestRunner"
SUITES_TO_IGNORE == {"general-tests", "device-tests", "tests"}

\* the data dict of a TestInfo of ModuleFinder
FinderData(rel_config, test_filter) ==
    (TI_REL_CONFIG :> rel_config) @@ (TI_FILTER :> test_filter)

\* the value of a finder that returned None or did not return
NoTest ==
    [test_name |-> None, test_runner |-> "none", build_targets |-> {},
     data |-> FinderData(None, {}), module_class |-> <<>>,
     install_locations |-> {}]

\* 'MODULES-IN-%s' % module_path.replace('/', '-')
modules_in(module_path) ==
    MODULES_IN \o Replace(Join(module_path, "/"), "/", "-")

\* test_finder_utils.get_install_locations
get_install_locations(installed) ==
    IF installed = <<>> THEN {} ELSE {"device"}

\* test_finder_utils.get_targets_from_xml: the apks of the config file that
\* are modules; no config file of the repository names the perf script or a
\* class of the compatibility package
utils_get_targets_from_xml(xml_file) ==
    IF ~isfile(xml_file) THEN Raise("IOError", {})
    ELSE Return({t \in {SubSeq(v, 1, Len(v) - Len(ApkExt)) :
                          v \in {o \in OptionValues(xml_file) :
                                    /\ Len(o) > Len(ApkExt)
                                    /\ EndsWith(o, ApkExt)
                                    /\ ~Contains(o, "/")}} :
                   is_module(t)})

\* the targets get_targets_from_vts_xml can find in the vts plans and in the
\* config of the module
VtsXmlTargets(test) ==
    SUBSET ({<<"vts-dep">>}
              \cup {modules_in(module_path) :
                      module_path \in Range(get_paths(test.test_name))})

is_vts_module(module_name) ==
    LET mod_info == get_module_info(module_name)
        suites == IF mod_info # EmptyDict
                  THEN dict_get(mod_info, "compatibility_suites") ELSE <<>>
        kept == SelectSeq(suites, LAMBDA suite : suite \notin SUITES_TO_IGNORE)
    IN  Len(kept) = 1 /\ "vts" \in Range(kept)

\* the descriptors update_to_vts_test_info can give
update_to_vts_test_info(test) ==
    {[test EXCEPT !.test_runner = VTS_TEST_RUNNER,
                  !.build_targets = test.build_targets \cup targets
                      \cup {<<"vts-test-core">>, test.test_name}] :
        targets \in VtsXmlTargets(test)}

update_to_robolectric_test_info(test) ==
    [test EXCEPT !.test_runner = ROBOLECTRIC_RUNNER,
                 !.test_name = get_robolectric_test_name(test.test_name)]

\* get_build_targets without the MODULES-IN targets
get_build_targets_without_modules_in(module_name, rel_config) ==
    IF ~is_auto_gen_test_config(module_name)
    THEN utils_get_targets_from_xml(root_dir \o rel_config)
    ELSE Return({})

get_build_targets(module_name, rel_config) ==
    LET targets == IF ~is_auto_gen_test_config(module_name)
                   THEN utils_get_targets_from_xml(root_dir \o rel_config)
                   ELSE Return({})
    IN  IF targets.kind = "raise" THEN targets
        ELSE Return(targets.value
                      \cup {modules_in(module_path) :
                              module_path \in Range(get_paths(module_name))})

\* the results of process_test_info
process_test_info(test) ==
    LET module_name == test.test_name
        mod_info == get_module_info(module_name)
    IN  IF mod_info = EmptyDict THEN {Return(NoTest)}
        ELSE IF "class" \notin DOMAIN mod_info
                  \/ "installed" \notin DOMAIN mod_info
        THEN {Raise("KeyError", NoTest)}
        ELSE LET found ==
                   [test_name |-> test.test_name,
                    test_runner |-> test.test_runner,
                    build_targets |-> test.build_targets,
                    data |-> test.data,
                    module_class |-> mod_info.class,
                    install_locations |->
                        get_install_locations(mod_info.installed)]
             IN  IF is_vts_module(test.test_name)
                 THEN {Return(t) : t \in update_to_vts_test_info(found)}
                 ELSE IF is_robolectric_test(test.test_name)
                 THEN {Return(update_to_robolectric_test_info(found))}
                 ELSE LET targets ==
                            get_build_targets(module_name,
                                               test.data[TI_REL_CONFIG])
                      IN  IF targets.kind = "raise"
                          THEN {Raise(targets.error, NoTest)}
                          ELSE {Return([found EXCEPT
                                          !.build_targets = targets.value])}

get_module_test_config(module_name, rel_config) ==
    LET mod_info == get_module_info(module_name)
        test_config_list == dict_get(mod_info, "test_config")
    IN  IF /\ mod_info # EmptyDict
           /\ test_config_list # <<>>
           /\ ~is_auto_gen_test_config(module_name)
           /\ test_config_list[1] # <<>>
        THEN test_config_list[1]
        ELSE rel_config

(***************************************************************************)
(* The searches of ModuleFinder in the repository.                         *)
(***************************************************************************)
CcExt == <<".", "c", "c">>

\* the package declared in each java file; E.java declares none
PackageOf(test_path) ==
    IF test_path \in {<< <<"r">>, <<"p">>, <<"s">>, <<"C">> \o JavaExt >>,
                      << <<"r">>, <<"p">>, <<"s">>, <<"D">> \o JavaExt >>}
    THEN <<"s">>
    ELSE IF test_path = << <<"r">>, <<"q">>, <<"D">> \o JavaExt >> THEN <<"q">>
    ELSE IF test_path = << <<"r">>, <<"u">>, <<"F">> \o JavaExt >> THEN <<"u">>
    ELSE <<>>

get_fully_qualified_class_name(test_path) ==
    IF PackageOf(test_path) = <<>> THEN Raise("MissingPackageNameError", <<>>)
    ELSE Return(PackageOf(test_path) \o <<".">>
                  \o splitext_root(test_path[Len(test_path)]))

\* test_finder_utils.get_package_name
get_package_name(file_path) == PackageOf(file_path)

\* test_finder_utils.get_cc_filter
get_cc_filter(class_name, methods) ==
    IF methods = {} THEN class_name \o <<".", "*">>
    ELSE class_name \o <<".">> \o (CHOOSE m \in methods : TRUE)

\* the results extract_test_path can have on the lines a find command
\* printed: with several lines the user enters the number of one of them,
\* or a number of none
extract_test_path(output) ==
    IF output = {} THEN {Return(None)}
    ELSE {Return(f) : f \in output}
            \cup (IF Cardinality(output) > 1 THEN {Raise("IndexError", None)}
                  ELSE {})

\* test_finder_utils.find_class_file(search_dir, class_name, is_native_test)
find_class_file(search_dir, class_name, is_native_test) ==
    LET ext == IF is_native_test THEN CcExt ELSE JavaExt
    IN  extract_test_path(
            IF Contains(class_name, ".")
            THEN {f \in repo_files :
                    /\ IsPrefix(search_dir, f)
                    /\ EndsWith(PathStr(f),
                                <<"/">> \o Replace(class_name, ".", "/") \o ext)}
            ELSE {f \in repo_files :
                    /\ IsPrefix(search_dir, f)
                    /\ f[Len(f)] = class_name \o ext})

\* test_finder_utils.run_find_cmd for a package: the directories under
\* search_dir whose path ends with the path of the package
run_find_cmd_package(search_dir, package_path) ==
    extract_test_path({d \in RepoDirs :
                          /\ IsPrefix(search_dir, d)
                          /\ EndsWith(PathStr(d), <<"/">> \o package_path)})

\* test_finder_utils.find_parent_module_dir(root_dir, start_dir, module_info)
utils_find_parent_module_dir(dir) == find_parent_module_dir(dir)

\* test_finder_utils.extract_test_from_tests: the user chooses among several
extract_test_from_tests(testable_modules) ==
    IF testable_modules = {} THEN {Return(None)}
    ELSE {Return(m) : m \in testable_modules}
            \cup (IF Cardinality(testable_modules) > 1
                  THEN {Raise("IndexError", None)} ELSE {})

\* the results of _determine_testable_module: a robolectric module of the
\* directory when there is one, else one of its testable modules
determine_testable_module(path) ==
    LET mods == get_module_names(path)
        robolectric == {mod \in mods : is_robolectric_test(mod)}
    IN  IF robolectric # {} THEN {Return(mod) : mod \in robolectric}
        ELSE extract_test_from_tests(
                 {get_module_info(mod).module_name :
                     mod \in {m \in mods :
                                 is_testable_module(get_module_info(m))}})

(***************************************************************************)
(* The finders of ModuleFinder, each giving the set of the results it can  *)
(* have. An argument that is not given is None.                            *)
(***************************************************************************)
\* the result of a finder with the finders called to get it, in call order
FinderResult(result, calls) == [result |-> result, calls |-> calls]

mf_find_test_by_module_name(module_name) ==
    LET mod_info == get_module_info(module_name)
    IN  IF ~is_testable_module(mod_info) THEN {Return(NoTest)}
        ELSE IF "path" \notin DOMAIN mod_info THEN {Raise("KeyError", NoTest)}
        ELSE IF mod_info.path = <<>> THEN {Raise("IndexError", NoTest)}
        ELSE LET rel_config ==
                   get_module_test_config(module_name,
                                          Append(mod_info.path[1], TEST_CONFIG))
             IN  process_test_info(
                     TestInfo(module_name, TEST_RUNNER, {},
                              FinderData(rel_config, {})))

\* the config of a test found in found_dir, looked for from found_dir
\* upwards also when a config was given
module_rel_config_rederived(found_dir, rel_config) ==
    LET parent == utils_find_parent_module_dir(found_dir)
    IN  IF parent.kind # "return" THEN parent
        ELSE IF parent.value = <<>> THEN Return(None)
        ELSE Return(Append(parent.value, TEST_CONFIG))

\* the config of a test found in found_dir: the one given, else the
\* AndroidTest.xml of the parent module directory of found_dir
module_rel_config(found_dir, rel_config) ==
    IF rel_config # None THEN Return(rel_config)
    ELSE LET parent == utils_find_parent_module_dir(found_dir)
         IN  IF parent.kind # "return" THEN parent
             ELSE IF parent.value = <<>> THEN Return(None)
             ELSE Return(Append(parent.value, TEST_CONFIG))

\* the module of a test: the one given, else a testable module of the
\* directory of the config
module_name_of(module_name, rel_config) ==
    IF module_name # None THEN {Return(module_name)}
    ELSE determine_testable_module(dirname(rel_config))

\* the end of find_test_by_class_name and of find_test_by_package_name, for
\* a test found in found_dir
module_test_info(found_dir, module_name, rel_config, test_filter) ==
    LET config == module_rel_config(found_dir, rel_config)
    IN  IF config.kind = "raise" THEN {Raise(config.error, NoTest)}
        ELSE IF config.kind = "hang" THEN {Hang(NoTest)}
        ELSE IF config.value = None THEN {Return(NoTest)}
        ELSE UNION {IF m.kind = "raise" THEN {m}
                    ELSE process_test_info(
                             TestInfo(m.value, TEST_RUNNER, {},
                                      FinderData(
                                          get_module_test_config(m.value,
                                                                 config.value),
                                          {test_filter}))) :
                       m \in module_name_of(module_name, config.value)}

\* the class file: searched under the directory of the config when one is
\* given, and under the root when not given or not found there
class_file(class_name, rel_config, is_native_test) ==
    LET search_dir == IF rel_config # None
                      THEN root_dir \o dirname(rel_config) ELSE root_dir
    IN  UNION {IF r.kind = "return" /\ r.value = None /\ rel_config # None
               THEN find_class_file(root_dir, class_name, is_native_test)
               ELSE {r} :
                  r \in find_class_file(search_dir, class_name, is_native_test)}

mf_find_test_by_class_name(class_name, module_name, rel_config, is_native_test) ==
    LET split == split_methods(class_name)
    IN  IF split.raised # "none" THEN {Raise(split.raised, NoTest)}
        ELSE UNION {
               IF p.kind = "raise" THEN {p}
               ELSE IF p.value = None THEN {Return(NoTest)}
               ELSE IF is_native_test
               THEN module_test_info(
                        dirname(p.value), module_name, rel_config,
                        TestFilter(get_cc_filter(split.ref, split.methods), {}))
               ELSE LET full_class_name ==
                          get_fully_qualified_class_name(p.value)
                    IN  IF full_class_name.kind = "raise"
                        THEN {Raise(full_class_name.error, NoTest)}
                        ELSE module_test_info(
                                 dirname(p.value), module_name, rel_config,
                                 TestFilter(full_class_name.value,
                                            split.methods)) :
                  p \in class_file(split.ref, rel_config, is_native_test)}

mf_find_test_by_cc_class_name(class_name, module_name, rel_config) ==
    mf_find_test_by_class_name(class_name, module_name, rel_config, TRUE)

\* the number of ':' in the reference
CountColons(reference) ==
    Cardinality({i \in DOMAIN reference : reference[i] = ":"})

\* find_test_by_module_and_class falling back to the class alone when the
\* module is not found
mf_find_test_by_module_and_class_fall_through(module_class) ==
    IF ~Contains(module_class, ":")
    THEN {FinderResult(Return(NoTest), <<>>)}
    ELSE IF CountColons(module_class) > 1
    THEN {FinderResult(Raise("ValueError", NoTest), <<>>)}
    ELSE {FinderResult(r, <<"find_test_by_module_name",
                            "find_test_by_class_name">>) :
            r \in mf_find_test_by_class_name(
                      StrSplit(module_class, ":")[2], None, None, FALSE)}

mf_find_test_by_module_and_class(module_class) ==
    IF ~Contains(module_class, ":")
    THEN {FinderResult(Return(NoTest), <<>>)}
    ELSE IF CountColons(module_class) > 1
    THEN {FinderResult(Raise("ValueError", NoTest), <<>>)}
    ELSE LET module_name == StrSplit(module_class, ":")[1]
             class_name == StrSplit(module_class, ":")[2]
         IN  UNION {
               IF m.kind # "return" \/ m.value = NoTest
               THEN {FinderResult(m, <<"find_test_by_module_name">>)}
               ELSE UNION {
                      IF find_result.kind = "return"
                           /\ find_result.value = NoTest
                      THEN {FinderResult(cc, <<"find_test_by_module_name",
                                               "find_test_by_class_name",
                                               "find_test_by_cc_class_name">>) :
                              cc \in mf_find_test_by_cc_class_name(
                                         class_name, m.value.test_name,
                                         m.value.data[TI_REL_CONFIG])}
                      ELSE {FinderResult(find_result,
                                         <<"find_test_by_module_name",
                                           "find_test_by_class_name">>)} :
                         find_result \in mf_find_test_by_class_name(
                                             class_name, m.value.test_name,
                                             m.value.data[TI_REL_CONFIG],
                                             FALSE)} :
                  m \in mf_find_test_by_module_name(module_name)}

\* find_test_by_package_name taking the methods into the filter of the
\* package instead of raising
mf_find_test_by_package_name_with_methods(package, module_name, rel_config) ==
    LET split == split_methods(package)
        search_dir == IF rel_config # None
                      THEN root_dir \o dirname(rel_config) ELSE root_dir
    IN  IF split.raised # "none" THEN {Raise(split.raised, NoTest)}
        ELSE UNION {
               IF package_path.kind = "raise" THEN {package_path}
               ELSE IF package_path.value = None THEN {Return(NoTest)}
               ELSE module_test_info(package_path.value, module_name,
                                     rel_config,
                                     TestFilter(split.ref, split.methods)) :
                  package_path \in
                      run_find_cmd_package(search_dir,
                                           Replace(split.ref, ".", "/"))}

mf_find_test_by_package_name(package, module_name, rel_config) ==
    LET split == split_methods(package)
        search_dir == IF rel_config # None
                      THEN root_dir \o dirname(rel_config) ELSE root_dir
    IN  IF split.raised # "none" THEN {Raise(split.raised, NoTest)}
        ELSE IF split.methods # {} THEN {Raise("MethodWithoutClassError", NoTest)}
        ELSE UNION {
               IF package_path.kind = "raise" THEN {package_path}
               ELSE IF package_path.value = None THEN {Return(NoTest)}
               ELSE module_test_info(package_path.value, module_name,
                                     rel_config, TestFilter(package, {})) :
                  package_path \in
                      run_find_cmd_package(search_dir,
                                           Replace(package, ".", "/"))}

mf_find_test_by_module_and_package(module_package) ==
    IF CountColons(module_package) # 1
    THEN {FinderResult(Raise("ValueError", NoTest), <<>>)}
    ELSE LET module_name == StrSplit(module_package, ":")[1]
             package == StrSplit(module_package, ":")[2]
         IN  UNION {
               IF m.kind # "return" \/ m.value = NoTest
               THEN {FinderResult(m, <<"find_test_by_module_name">>)}
               ELSE {FinderResult(r, <<"find_test_by_module_name",
                                       "find_test_by_package_name">>) :
                       r \in mf_find_test_by_package_name(
                                 package, m.value.test_name,
                                 m.value.data[TI_REL_CONFIG])} :
                  m \in mf_find_test_by_module_name(module_name)}

\* test_finder_utils.has_cc_class: no file of the repository is a cc file
\* with a test class
has_cc_class(test_path) == FALSE

\* the filters find_test_by_path can give: the class of a java file, the
\* methods of a cc file, the package of the first java file with a package
\* that os.listdir gives for a directory that is not the module directory
path_filter(path, file_name, methods, module_name, rel_module_dir) ==
    IF file_name # None /\ EndsWith(file_name, JavaExt)
    THEN LET full_class_name == get_fully_qualified_class_name(path)
         IN  IF full_class_name.kind = "raise"
             THEN {Raise(full_class_name.error, {})}
             ELSE {Return({TestFilter(full_class_name.value, methods)})}
    ELSE IF file_name # None /\ EndsWith(file_name, CcExt)
    THEN IF ~has_cc_class(path) THEN {Raise("MissingCCTestCaseError", {})}
         ELSE IF methods # {}
         THEN {Return({TestFilter(get_cc_filter(<<"*">>, methods), {})})}
         ELSE {Return({})}
    ELSE IF /\ file_name = None
            /\ ~is_auto_gen_test_config(module_name)
            /\ rel_module_dir # relpath(path, root_dir)
    THEN LET packaged == {f \in repo_files :
                             /\ dirname(f) = path
                             /\ EndsWith(f[Len(f)], JavaExt)
                             /\ get_package_name(f) # <<>>}
         IN  IF packaged = {} THEN {Return({})}
             ELSE IF methods # {}
             THEN {Raise("MethodWithoutClassError", {})}
             ELSE {Return({TestFilter(get_package_name(f), methods)}) :
                     f \in packaged}
    ELSE {Return({})}

mf_find_test_by_path(path) ==
    LET split == split_methods(path)
        real == realpath(split.ref)
        dir_path == IF isfile(real) THEN dirname(real) ELSE real
        file_name == IF isfile(real) THEN real[Len(real)] ELSE None
        parent == utils_find_parent_module_dir(dir_path)
    IN  IF split.raised # "none" THEN {Raise(split.raised, NoTest)}
        ELSE IF ~exists(real) THEN {Return(NoTest)}
        ELSE IF parent.kind = "raise" THEN {Raise(parent.error, NoTest)}
        ELSE IF parent.kind = "hang" THEN {Hang(NoTest)}
        ELSE IF parent.value = <<>> THEN {Return(NoTest)}
        ELSE UNION {
               IF m.kind = "raise" THEN {m}
               ELSE UNION {
                      IF f.kind = "raise" THEN {Raise(f.error, NoTest)}
                      ELSE process_test_info(
                               TestInfo(m.value, TEST_RUNNER, {},
                                        FinderData(
                                            get_module_test_config(
                                                m.value,
                                                Append(parent.value, TEST_CONFIG)),
                                            f.value))) :
                         f \in path_filter(real, file_name, split.methods,
                                           m.value, parent.value)} :
                  m \in determine_testable_module(parent.value)}

(***************************************************************************)
(* AtestTradefedTestRunner._process_connection: the events TradeFed sends  *)
(* as 'EVENT_NAME {JSON_DATA}' lines, the bytes recv returns, and the      *)
(* events EVENT_RE and json.loads find in the buffer.                      *)
(***************************************************************************)
NL == "\n"

\* characters of [A-Z_]
EventNameChars == {"A", "B", "_"}

\* json.loads(json_data) returns a dict: the data is one object, '{', then
\* members, of which "a" stands for the text of keys and values and which
\* can be objects, then the '}' of the first '{'
is_json_object(json_data) ==
    LET opened(i) == Cardinality({j \in 1..i : json_data[j] = "{"})
        closed(i) == Cardinality({j \in 1..i : json_data[j] = "}"})
    IN  /\ Len(json_data) >= 2
        /\ \A i \in DOMAIN json_data : json_data[i] \in {"{", "}", "a"}
        /\ json_data[1] = "{"
        /\ \A i \in 1..(Len(json_data) - 1) : opened(i) > closed(i)
        /\ opened(Len(json_data)) = closed(Len(json_data))

\* no match of EVENT_RE
NoMatch == [matched |-> FALSE, event_name |-> <<>>, json_data |-> <<>>, end |-> 0]

\* EVENT_RE.match(buf), '^(?P<event_name>[A-Z_]+) (?P<json_data>{.*})(?:\n|$)':
\* the name up to the first space of the first line, and the rest of the line
\* when it goes from a '{' to a '}'; "." does not match the newline, and the
\* '}' is followed by the newline, which is matched too, or ends buf
EVENT_RE_match(buf) ==
    LET nl == IndexOf(buf, NL)
        line == IF nl = 0 THEN buf ELSE SubSeq(buf, 1, nl - 1)
        space == IndexOf(line, " ")
    IN  IF /\ space > 1
           /\ \A i \in 1..(space - 1) : line[i] \in EventNameChars
           /\ Len(line) >= space + 2
           /\ line[space + 1] = "{"
           /\ line[Len(line)] = "}"
        THEN [matched |-> TRUE,
              event_name |-> SubSeq(line, 1, space - 1),
              json_data |-> SubSeq(line, space + 1, Len(line)),
              end |-> IF nl = 0 THEN Len(line) ELSE nl]
        ELSE NoMatch

\* an event: its name and its data, the json text standing for the dict
Event(event_name, event_data) ==
    [event_name |-> event_name, event_data |-> event_data]

RECURSIVE process_buffer(_, _)
\* the inner loop of _process_connection: as long as EVENT_RE matches buf and
\* json.loads decodes the data, the event is taken off buf and processed
process_buffer(buf, processed) ==
    LET match == EVENT_RE_match(buf)
    IN  IF match.matched /\ is_json_object(match.json_data)
        THEN process_buffer(SubSeq(buf, match.end + 1, Len(buf)),
                            Append(processed,
                                   Event(match.event_name, match.json_data)))
        ELSE [buf |-> buf, processed |-> processed]

\* '%s %s' % (name, json.dumps(data)) of each event, joined by newlines
socket_data(events) ==
    Join([i \in DOMAIN events |->
             events[i].event_name \o <<" ">> \o events[i].event_data], NL)

(***************************************************************************)
(* atest_tf_test_runner.py: the events of a test run.                      *)
(***************************************************************************)
START_EVENTS == {"TEST_MODULE_STARTED", "TEST_RUN_STARTED", "TEST_STARTED"}
END_EVENTS == {"TEST_MODULE_ENDED", "TEST_RUN_ENDED", "TEST_ENDED"}
EVENT_PAIRS ==
    [start_event \in START_EVENTS |->
        CASE start_event = "TEST_MODULE_STARTED" -> "TEST_MODULE_ENDED"
          [] start_event = "TEST_RUN_STARTED" -> "TEST_RUN_ENDED"
          [] start_event = "TEST_STARTED" -> "TEST_ENDED"]

\* None, for a name and for a failure
NoName == "None"
NoFailure == [name |-> NoName, trace |-> NoName]

CONNECTION_STATE ==
    [current_test |-> NoName, last_failed |-> NoFailure,
     last_ignored |-> NoName, current_group |-> NoName,
     current_group_total |-> 0, test_count |-> 0, test_start_time |-> 0]

\* test_runner_base.TestResult, without the test time and the runner
TestResult(group_name, test_name, status, details, test_count) ==
    [group_name |-> group_name, test_name |-> test_name, status |-> status,
     details |-> details, test_count |-> test_count]

\* what an event leaves: the state, the stack, the calls of
\* reporter.process_test_result it made and whether TradeFedExitError was raised
EventOutcome(state, event_stack, calls, raised_error) ==
    [state |-> state, event_stack |-> event_stack, calls |-> calls,
     raised |-> raised_error]

\* the check that raises only when no START event is open
check_events_are_balanced_any_start(event_name, state, event_stack) ==
    LET start_event ==
            IF event_stack # <<>> THEN event_stack[Len(event_stack)] ELSE NoName
        popped ==
            IF event_stack # <<>>
            THEN SubSeq(event_stack, 1, Len(event_stack) - 1)
            ELSE event_stack
    IN  IF start_event = NoName
        THEN EventOutcome(state, popped, <<>>, TRUE)
        ELSE EventOutcome(state, popped, <<>>, FALSE)

check_events_are_balanced(event_name, state, event_stack) ==
    LET start_event ==
            IF event_stack # <<>> THEN event_stack[Len(event_stack)] ELSE NoName
        popped ==
            IF event_stack # <<>>
            THEN SubSeq(event_stack, 1, Len(event_stack) - 1)
            ELSE event_stack
    IN  IF start_event = NoName \/ EVENT_PAIRS[start_event] # event_name
        THEN EventOutcome(state, popped,
                 IF state.last_failed # NoFailure /\ start_event = "TEST_STARTED"
                 THEN << TestResult(state.current_group, state.last_failed.name,
                                    "FAILED", state.last_failed.trace,
                                    state.test_count) >>
                 ELSE <<>>,
                 TRUE)
        ELSE EventOutcome(state, popped, <<>>, FALSE)

\* the state after the event and the result reported for it, the START and
\* END bookkeeping done
handle_event(event_name, event_data, state) ==
    CASE event_name = "TEST_MODULE_STARTED" ->
            [state |-> [state EXCEPT !.current_group = event_data.moduleName,
                                     !.last_failed = NoFailure,
                                     !.current_test = NoName],
             calls |-> <<>>]
      [] event_name = "TEST_RUN_STARTED" ->
            [state |-> [state EXCEPT !.current_group_total = event_data.testCount,
                                     !.test_count = 0,
                                     !.last_failed = NoFailure,
                                     !.current_test = NoName],
             calls |-> <<>>]
      [] event_name = "TEST_STARTED" ->
            [state |-> [state EXCEPT !.current_test = event_data.name,
                                     !.test_count = state.test_count + 1,
                                     !.test_start_time = event_data.start_time],
             calls |-> <<>>]
      [] event_name = "TEST_FAILED" ->
            [state |-> [state EXCEPT !.last_failed =
                            [name |-> event_data.name, trace |-> event_data.trace]],
             calls |-> <<>>]
      [] event_name = "TEST_IGNORED" ->
            [state |-> [state EXCEPT !.last_ignored = event_data.name],
             calls |-> <<>>]
      [] event_name \in {"TEST_RUN_FAILED", "INVOCATION_FAILED"} ->
            [state |-> state,
             calls |-> << TestResult(state.current_group, state.current_test,
                                     "ERROR", event_data.trace,
                                     state.test_count) >>]
      [] event_name = "TEST_ENDED" ->
            IF state.last_failed # NoFailure
               /\ event_data.name = state.last_failed.name
            THEN [state |-> [state EXCEPT !.last_failed = NoFailure],
                  calls |-> << TestResult(state.current_group, event_data.name,
                                          "FAILED", state.last_failed.trace,
                                          state.test_count) >>]
            ELSE IF state.last_ignored # NoName
                    /\ event_data.name = state.last_ignored
            THEN [state |-> [state EXCEPT !.last_ignored = NoName],
                  calls |-> << TestResult(state.current_group, event_data.name,
                                          "IGNORED", NoName, state.test_count) >>]
            ELSE [state |-> state,
                  calls |-> << TestResult(state.current_group, event_data.name,
                                          "PASSED", NoName, state.test_count) >>]
      [] OTHER -> [state |-> state, calls |-> <<>>]

process_event(event_name, event_data, state, event_stack) ==
    LET checked ==
            IF event_name \in START_EVENTS
            THEN EventOutcome(state, Append(event_stack, event_name), <<>>, FALSE)
            ELSE IF event_name \in END_EVENTS
            THEN check_events_are_balanced(event_name, state, event_stack)
            ELSE EventOutcome(state, event_stack, <<>>, FALSE)
        handled == handle_event(event_name, event_data, state)
    IN  IF checked.raised
        THEN checked
        ELSE EventOutcome(handled.state, checked.event_stack, handled.calls,
                          FALSE)


(***************************************************************************)
(* atest_tf_test_runner.py: _exec_with_tf_polling.                         *)
(***************************************************************************)
\* tf_subproc.poll() of a running subprocess; <<code>> is the return code of
\* one that exited
NoReturnCode == <<>>
SocketTimeout == Raise("socket.timeout", "None")

\* after socket_func(): return its value, or poll the subprocess when it
\* timed out
after_socket_func(outcome) ==
    IF outcome = SocketTimeout THEN "polling" ELSE "returned"

\* the loop that never looks at what poll() returned
after_poll_keep_waiting(returncode) == "calling"

\* after tf_subproc.poll(): raise when the subprocess exited, call
\* socket_func again when it is running
after_poll(returncode) ==
    IF returncode # NoReturnCode THEN "raised" ELSE "calling"


(***************************************************************************)
(* atest_tf_test_runner.py: the iterations of a test run and its run       *)
(* command.                                                                *)
(***************************************************************************)
PRE_PATCH_ITERATIONS == "PRE_PATCH_ITERATIONS"
POST_PATCH_ITERATIONS == "POST_PATCH_ITERATIONS"

\* extra_args.get(arg) is neither None nor 0
extra_args_get(extra_args, arg) ==
    arg \in DOMAIN extra_args /\ extra_args[arg] # 0

\* extra_args after extra_args.pop(arg)
extra_args_pop(extra_args, arg) ==
    [a \in DOMAIN extra_args \ {arg} |-> extra_args[a]]

\* os.path.join(self.results_dir, folder); <<>> is the empty string
NoMetricsFolder == <<>>
generate_metrics_folder(extra_args) ==
    IF extra_args_get(extra_args, PRE_PATCH_ITERATIONS)
    THEN <<"results_dir", "baseline-metrics">>
    ELSE IF extra_args_get(extra_args, POST_PATCH_ITERATIONS)
    THEN <<"results_dir", "new-metrics">>
    ELSE NoMetricsFolder

\* the iterations, and extra_args as _generate_iterations leaves it
generate_iterations(extra_args) ==
    IF extra_args_get(extra_args, PRE_PATCH_ITERATIONS)
    THEN [iterations |-> extra_args[PRE_PATCH_ITERATIONS],
          extra_args |-> extra_args_pop(extra_args, PRE_PATCH_ITERATIONS)]
    ELSE IF extra_args_get(extra_args, POST_PATCH_ITERATIONS)
    THEN [iterations |-> extra_args[POST_PATCH_ITERATIONS],
          extra_args |-> extra_args_pop(extra_args, POST_PATCH_ITERATIONS)]
    ELSE [iterations |-> 1, extra_args |-> extra_args]

\* the arguments of the run command that depend on extra_args and port
generate_run_commands(extra_args, port) ==
    (IF port THEN <<"--subprocess-report-port", "port">> ELSE <<>>)
    \o (IF generate_metrics_folder(extra_args) # NoMetricsFolder
        THEN <<"--metrics-folder", generate_metrics_folder(extra_args)>>
        ELSE <<>>)
    \o <<"--log-level", "WARN">>


(***************************************************************************)
(* bug_detector.py.                                                        *)
(***************************************************************************)
DETECT_OPTION_FILTER == { <<"-", "v">>, <<"-", "-", "v", "e", "r", "b", "o", "s", "e">> }
DETECTED_SUCCESS == 1
DETECTED_FAIL == 0

\* ord(c) of the characters of the arguments
Ord(c) ==
    CASE c = " " -> 32 [] c = "-" -> 45 [] c = "a" -> 97 [] c = "b" -> 98
      [] c = "e" -> 101 [] c = "o" -> 111 [] c = "r" -> 114 [] c = "s" -> 115
      [] c = "v" -> 118

RECURSIVE StrLessEq(_, _)
\* s <= t for Python strings
StrLessEq(s, t) ==
    IF s = <<>> THEN TRUE
    ELSE IF t = <<>> THEN FALSE
    ELSE IF Head(s) = Head(t) THEN StrLessEq(Tail(s), Tail(t))
    ELSE Ord(Head(s)) < Ord(Head(t))

RECURSIVE list_insert(_, _)
\* the sorted list with one more string
list_insert(sorted, x) ==
    IF sorted = <<>> THEN <<x>>
    ELSE IF StrLessEq(x, Head(sorted)) THEN <<x>> \o sorted
    ELSE <<Head(sorted)>> \o list_insert(Tail(sorted), x)

RECURSIVE list_sort(_)
\* list.sort() of a list of strings
list_sort(list) ==
    IF list = <<>> THEN <<>>
    ELSE list_insert(list_sort(Tail(list)), Head(list))

\* the arguments of argv that are not in _DETECT_OPTION_FILTER, in order
RECURSIVE without_option(_)
without_option(argv) ==
    IF argv = <<>> THEN <<>>
    ELSE IF Head(argv) \in DETECT_OPTION_FILTER THEN without_option(Tail(argv))
    ELSE <<Head(argv)>> \o without_option(Tail(argv))

get_detect_key(argv) == Join(list_sort(without_option(argv)), " ")

\* get_history of a file that does not exist
NoHistory == [k \in {} |-> 0]

\* the detector that takes a command it never saw for a caught bug
detect_bug_caught_unseen_is_bug(history, detect_key, exit_code) ==
    IF history = NoHistory THEN DETECTED_FAIL
    ELSE IF detect_key \in DOMAIN history
            /\ history[detect_key].latest_exit_code = exit_code
    THEN DETECTED_FAIL
    ELSE DETECTED_SUCCESS

detect_bug_caught(history, detect_key, exit_code) ==
    IF history = NoHistory THEN DETECTED_FAIL
    ELSE LET latest_exit_code ==
                 IF detect_key \in DOMAIN history
                 THEN history[detect_key].latest_exit_code
                 ELSE exit_code
         IN  IF latest_exit_code = exit_code THEN DETECTED_FAIL
             ELSE DETECTED_SUCCESS

\* self.history after update_history; now is datetime.datetime.now()
update_history(history, detect_key, exit_code, now) ==
    [k \in DOMAIN history \cup {detect_key} |->
        IF k = detect_key
        THEN [latest_exit_code |-> exit_code, updated_at |-> now]
        ELSE history[k]]


(***************************************************************************)
(* atest.py: main.                                                         *)
(***************************************************************************)
EXIT_CODE_SUCCESS == 0
EXIT_CODE_BUILD_FAILURE == 2
EXIT_CODE_ERROR == 3
EXIT_CODE_TEST_NOT_FOUND == 4
EXIT_CODE_TEST_FAILURE == 5
BUILD_STEP == "build"
INSTALL_STEP == "install"
TEST_STEP == "test"
ALL_STEPS == {BUILD_STEP, INSTALL_STEP, TEST_STEP}

\* a | b for exit codes below 4
bit_or(a, b) ==
    (IF a % 2 = 1 \/ b % 2 = 1 THEN 1 ELSE 0)
    + (IF a \div 2 = 1 \/ b \div 2 = 1 THEN 2 ELSE 0)

\* _will_run_tests: detect_regression is the number of its arguments
will_run_tests(args) == ~(args.detect_regression = 2)

\* args.steps if args.steps else constants.ALL_STEPS
steps_of(args) == IF args.steps # {} THEN args.steps ELSE ALL_STEPS

\* the build is done
build_wanted(build_targets, steps) ==
    build_targets # {} /\ BUILD_STEP \in steps

\* main going on to the tests whatever the build did
after_build_ignoring_failure(success) == "test"

\* where main goes after atest_utils.build
after_build(success) == IF ~success THEN "returned" ELSE "test"

\* the exit code of main after the tests
exit_code_of_tests(tests_exit_code) ==
    IF tests_exit_code # EXIT_CODE_SUCCESS THEN EXIT_CODE_TEST_FAILURE
    ELSE tests_exit_code


(***************************************************************************)
(* State.                                                                  *)
(***************************************************************************)
VARIABLES
    user_input,        \* argument of split_methods
    split_result,      \* what split_methods returned or raised
    test_reference,    \* argument of _get_test_reference_types
    reference_types,   \* the list it returned, <<"pending">> before the call
    filters,           \* argument of _flatten_test_filters, in iteration order
    flat_filters,      \* its result
    test_infos,        \* argument of _flatten_test_infos, in iteration order
    flat_infos,        \* its result

    tests,             \* argument of translate
    translate_pc,      \* "running", "returned", "raised" or "hung"
    test_idx,          \* index in tests of the next reference of the loop
    build_targets,     \* translate's set of build targets
    run_commands,      \* translate's list of run commands
    raised,            \* the exception translate raised, "none" if none
    raised_arg,        \* the reference named in its message, if any
    returned,          \* what translate returned, NoReturn if it did not
    get_test_info_call,\* the last call of _get_test_info: its argument, the
                       \* finder calls it made, in order, and its result

    start_dir,         \* argument of _find_parent_module_dir
    parent_dir,        \* what it returned or raised

    finder_call,       \* the finder called and its arguments
    finder_result,     \* what it returned or raised, and the finders it called

    conn_events,       \* the events TradeFed sends on the connection
    conn_unread,       \* the bytes of them that recv has not returned yet
    conn_buf,          \* buf of _process_connection
    conn_processed,    \* the calls of _process_event, in order
    conn_pc,           \* "idle", "open" or "closed"

    ev_count,          \* number of calls of _process_event so far
    ev_last,           \* the event of the last call
    ev_stack,          \* event_stack
    ev_state,          \* state, the connection state
    ev_calls,          \* the calls of reporter.process_test_result of the last call
    ev_pc,             \* "idle", "running" or "raised" (TradeFedExitError)
    ev_open,           \* history: for each START event not yet ended, the
                       \* failures and ignores received since it
    ev_closed,         \* history: the same for the START event ended last

    poll_pc,           \* "idle", "calling", "polling", "returned" or "raised"
    poll_socket,       \* what the last call of socket_func did
    poll_observed,     \* what the last tf_subproc.poll() returned
    poll_result,       \* what _exec_with_tf_polling returned or raised
    poll_timeouts,     \* the timeouts of socket_func so far, up to MaxTimeouts
    tf_returncode,     \* NoReturnCode while the TradeFed subprocess runs

    run_given,         \* history: extra_args as the caller gave it
    run_extra_args,    \* extra_args
    run_pretty,        \* run_tests_pretty, not run_tests_raw
    run_pc,            \* "idle", "called", "looping" or "returned"
    run_iterations,    \* iterations
    run_launched,      \* the run commands of the subprocesses started
    run_ret_code,      \* ret_code

    history_file,      \* the history that the history file holds
    bug_runs,          \* the BugDetector objects constructed so far
    bug_detector,      \* the last of them: its argv, detect_key, exit_code,
                       \* history as read from the file and caught_result

    main_args,         \* args: detect_regression (the number of its
                       \* arguments), info and steps
    main_pc,           \* "idle", "start", "translated", "build", "test",
                       \* "regression" or "returned"
    main_test_infos,   \* test_infos
    main_build_targets,\* build_targets
    main_steps,        \* steps
    tests_exit_code,   \* tests_exit_code
    main_calls,        \* history: what main called, and what it got back
    main_returned      \* <<exit code>> when main returned or exited

split_vars == <<user_input, split_result>>
classify_vars == <<test_reference, reference_types>>
filter_vars == <<filters, flat_filters>>
info_vars == <<test_infos, flat_infos>>
translate_vars == <<module_info, repo_files, tests, translate_pc, test_idx,
                    build_targets, run_commands, raised, raised_arg, returned,
                    get_test_info_call>>
parent_vars == <<start_dir, parent_dir>>
finder_vars == <<finder_call, finder_result>>
conn_vars == <<conn_events, conn_unread, conn_buf, conn_processed, conn_pc>>
\* the variables of the test runner and of atest's main
event_vars == <<ev_count, ev_last, ev_stack, ev_state, ev_calls, ev_pc,
                ev_open, ev_closed>>
poll_vars == <<poll_pc, poll_socket, poll_observed, poll_result,
               poll_timeouts, tf_returncode>>
run_vars == <<run_given, run_extra_args, run_pretty, run_pc, run_iterations,
              run_launched, run_ret_code>>
bug_vars == <<history_file, bug_runs, bug_detector>>
main_vars == <<main_args, main_pc, main_test_infos, main_build_targets,
               main_steps, tests_exit_code, main_calls, main_returned>>
atest_vars == <<conn_vars, event_vars, poll_vars, run_vars, bug_vars,
                main_vars>>

vars == <<split_vars, classify_vars, filter_vars, info_vars, translate_vars,
          parent_vars, finder_vars,
                   atest_vars>>

(***************************************************************************)
(* The states before an operation is called.                               *)
(***************************************************************************)

\* the classifier has not been called
NoTypes == <<"pending">>
\* _flatten_test_filters has not returned
NoFlatFilters == [done |-> FALSE, value |-> {}]
\* _flatten_test_infos has not returned
NoFlatInfos == [done |-> FALSE, value |-> {}]

IdleSplit == user_input = <<>> /\ split_result = NoSplit
IdleClassify == test_reference = <<>> /\ reference_types = NoTypes
IdleFlattenFilters == filters = <<>> /\ flat_filters = NoFlatFilters
IdleFlattenInfos == test_infos = <<>> /\ flat_infos = NoFlatInfos
\* translate has not returned
NoReturn == [done |-> FALSE, build_targets |-> {}, run_commands |-> <<>>]
\* _get_test_info has not been called
NoCall == [test_name |-> <<>>, calls |-> <<>>, result |-> Return(NoInfo)]

\* translate has not been called
NotTranslating ==
    /\ tests = <<>>
    /\ translate_pc = "idle"
    /\ test_idx = 1
    /\ build_targets = {}
    /\ run_commands = <<>>
    /\ raised = "none"
    /\ raised_arg = <<>>
    /\ returned = NoReturn
    /\ get_test_info_call = NoCall

\* _find_parent_module_dir has not been called
NoParent == [kind |-> "pending", value |-> <<>>, error |-> "none"]
IdleParent == start_dir = <<>> /\ parent_dir = NoParent

\* no finder has been called
NoFinderCall ==
    [finder |-> "none", reference |-> <<>>, module_name |-> None,
     rel_config |-> None]
NoFinderResult == [done |-> FALSE, result |-> Return(NoTest), calls |-> <<>>]
IdleFinder == finder_call = NoFinderCall /\ finder_result = NoFinderResult

\* _process_connection has not been called
IdleConnection ==
    /\ conn_events = <<>>
    /\ conn_unread = <<>>
    /\ conn_buf = <<>>
    /\ conn_processed = <<>>
    /\ conn_pc = "idle"

\* no failure and no ignore received
NoneReceived == [failed |-> [n \in {} |-> NoName], ignored |-> {}]
NoEvent == [event_name |-> NoName, event_data |-> NoName]

\* _process_event has not been called
IdleEvents ==
    /\ ev_count = 0
    /\ ev_last = NoEvent
    /\ ev_stack = <<>>
    /\ ev_state = CONNECTION_STATE
    /\ ev_calls = <<>>
    /\ ev_pc = "idle"
    /\ ev_open = <<>>
    /\ ev_closed = NoneReceived

\* _exec_with_tf_polling has not been called
NoSocketCall == Return("None")
IdlePolling ==
    /\ poll_pc = "idle"
    /\ poll_socket = NoSocketCall
    /\ poll_observed = NoReturnCode
    /\ poll_result = NoSocketCall
    /\ poll_timeouts = 0
    /\ tf_returncode = NoReturnCode

\* run_tests has not been called
NoExtraArgs == [a \in {} |-> 0]
IdleRunTests ==
    /\ run_given = NoExtraArgs
    /\ run_extra_args = NoExtraArgs
    /\ run_pretty = FALSE
    /\ run_pc = "idle"
    /\ run_iterations = 0
    /\ run_launched = <<>>
    /\ run_ret_code = 0

\* no BugDetector has been constructed
NoDetector ==
    [argv |-> <<>>, detect_key |-> <<>>, exit_code |-> 0, read |-> NoHistory,
     caught_result |-> DETECTED_FAIL]
IdleBugDetector ==
    /\ history_file = NoHistory
    /\ bug_runs = 0
    /\ bug_detector = NoDetector

\* main has not been called
NoArgs == [detect_regression |-> 0, info |-> FALSE, steps |-> {}]
IdleMain ==
    /\ main_args = NoArgs
    /\ main_pc = "idle"
    /\ main_test_infos = {}
    /\ main_build_targets = {}
    /\ main_steps = {}
    /\ tests_exit_code = EXIT_CODE_SUCCESS
    /\ main_calls = <<>>
    /\ main_returned = <<>>

\* no method of the test runner and no step of main has run
IdleAtest ==
    IdleConnection /\ IdleEvents /\ IdlePolling /\ IdleRunTests
    /\ IdleBugDetector /\ IdleMain


\* the translator has been constructed and translate has not been called
IdleTranslate ==
    /\ module_info = ModuleInfoJson
    /\ repo_files = RepoFiles
    /\ NotTranslating

\* the translator is constructed and none of its methods has been called
IdleTranslator ==
    /\ IdleTranslate
    /\ IdleSplit
    /\ IdleClassify
    /\ IdleFlattenFilters
    /\ IdleFlattenInfos
    /\ IdleParent
    /\ IdleFinder

(***************************************************************************)
(* split_methods applied to every bounded input.                           *)
(***************************************************************************)
InitSplit ==
    /\ user_input \in StringsUpTo(SplitChars, MaxInputLen)
    /\ split_result = NoSplit
    /\ IdleClassify
    /\ IdleFlattenFilters
    /\ IdleFlattenInfos
    /\ IdleTranslate
    /\ IdleParent
    /\ IdleFinder
    /\ IdleAtest

SplitMethods ==
    /\ split_result = NoSplit
    /\ split_result' = split_methods(user_input)
    /\ UNCHANGED <<user_input, classify_vars, filter_vars, info_vars,
                   translate_vars, parent_vars,
                   finder_vars,
                   atest_vars>>

NextSplit == SplitMethods

SpecSplit == InitSplit /\ [][NextSplit]_vars

(***************************************************************************)
(* _get_test_reference_types applied to every bounded reference.           *)
(***************************************************************************)
InitClassify ==
    /\ test_reference \in StringsUpTo(RefChars, MaxRefLen)
    /\ reference_types = NoTypes
    /\ IdleSplit
    /\ IdleFlattenFilters
    /\ IdleFlattenInfos
    /\ IdleTranslate
    /\ IdleParent
    /\ IdleFinder
    /\ IdleAtest

GetTestReferenceTypes ==
    /\ reference_types = NoTypes
    /\ reference_types' = get_test_reference_types(test_reference)
    /\ UNCHANGED <<test_reference, split_vars, filter_vars, info_vars,
                   translate_vars, parent_vars,
                   finder_vars,
                   atest_vars>>

NextClassify == GetTestReferenceTypes

SpecClassify == InitClassify /\ [][NextClassify]_vars

(***************************************************************************)
(* _flatten_test_filters applied to every bounded set of filters, in every *)
(* iteration order of the set.                                             *)
(***************************************************************************)
AllFilters == {TestFilter(c, m) : c \in Range(ClassNames), m \in SUBSET Methods}

\* the sequences without repetition over S of length at most n
OrderedSubsets(S, n) ==
    UNION {{q \in [1..k -> S] : \A i, j \in 1..k : i # j => q[i] # q[j]} :
              k \in 0..n}

InitFlattenFilters ==
    /\ filters \in OrderedSubsets(AllFilters, MaxFilters)
    /\ flat_filters = NoFlatFilters
    /\ IdleSplit
    /\ IdleClassify
    /\ IdleFlattenInfos
    /\ IdleTranslate
    /\ IdleParent
    /\ IdleFinder
    /\ IdleAtest

FlattenTestFilters ==
    /\ ~flat_filters.done
    /\ flat_filters' = [done |-> TRUE, value |-> flatten_test_filters(filters)]
    /\ UNCHANGED <<filters, split_vars, classify_vars, info_vars,
                   translate_vars, parent_vars,
                   finder_vars,
                   atest_vars>>

NextFlattenFilters == FlattenTestFilters

SpecFlattenFilters == InitFlattenFilters /\ [][NextFlattenFilters]_vars

(***************************************************************************)
(* _flatten_test_infos applied to every bounded list of TestInfos.         *)
(***************************************************************************)
TestRunners == {"AtestTradefedTestRunner", "VtsTradefedTestRunner"}
BuildTargetSets == {{"target1"}, {"target2"}}
\* the data dicts of the TestInfos: no filter key, an empty filter set, and
\* method filters of one class
DataDicts ==
    {EmptyDict,
     [filter |-> {}, rel_config |-> "config1"],
     [filter |-> {TestFilter("classA", {"Method1"})}],
     [filter |-> {TestFilter("classA", {"Method2"})}, rel_config |-> "config2"]}

AllTestInfos ==
    {TestInfo(n, r, b, d) : n \in Range(ModuleNames), r \in TestRunners,
                            b \in BuildTargetSets, d \in DataDicts}

InitFlattenInfos ==
    /\ \E k \in 0..MaxInfos : test_infos \in [1..k -> AllTestInfos]
    /\ flat_infos = NoFlatInfos
    /\ IdleSplit
    /\ IdleClassify
    /\ IdleFlattenFilters
    /\ IdleTranslate
    /\ IdleParent
    /\ IdleFinder
    /\ IdleAtest

FlattenTestInfos ==
    /\ ~flat_infos.done
    /\ \E results \in flatten_test_infos(test_infos) :
           flat_infos' = [done |-> TRUE, value |-> results]
    /\ UNCHANGED <<test_infos, split_vars, classify_vars, filter_vars,
                   translate_vars, parent_vars,
                   finder_vars,
                   atest_vars>>

NextFlattenInfos == FlattenTestInfos

SpecFlattenInfos == InitFlattenInfos /\ [][NextFlattenInfos]_vars

(***************************************************************************)
(* translate applied to every bounded list of the references below.        *)
(***************************************************************************)
\* M N K: modules; C: a class of M; D: a class found twice; E: a class
\* without module; F: a class of an unregistered module; X: nothing;
\* M:C, s.C, p/s, ../rx: a module:class, a qualified class and two paths
TestRefs ==
    { <<"M">>, <<"N">>, <<"K">>, <<"L">>, <<"C">>, <<"D">>, <<"E">>, <<"F">>,
      <<"X">>, <<"M", ":", "C">>, <<"s", ".", "C">>, <<"p", "/", "s">>,
      <<".", ".", "/", "r", "x">> }

\* self.module_info after a lookup that stores an empty entry for a name
\* the index does not have (dict.setdefault)
module_info_setdefault(module_name) ==
    IF module_name \in DOMAIN module_info THEN module_info
    ELSE [name \in DOMAIN module_info \cup {module_name} |->
             IF name = module_name THEN [class |-> <<>>]
             ELSE module_info[name]]

\* self.module_info after the finders looked module_name up: iteritems and
\* dict.get read the dict and leave it as it is
module_info_get(module_name) == module_info

InitTranslate ==
    /\ module_info \in {ModuleInfoJson, ModuleInfoNoPath}
    /\ repo_files = RepoFiles
    /\ \E k \in 0..MaxTests : tests \in [1..k -> TestRefs]
    /\ translate_pc = "running"
    /\ test_idx = 1
    /\ build_targets = {}
    /\ run_commands = <<>>
    /\ raised = "none"
    /\ raised_arg = <<>>
    /\ returned = NoReturn
    /\ get_test_info_call = NoCall
    /\ IdleSplit
    /\ IdleClassify
    /\ IdleFlattenFilters
    /\ IdleFlattenInfos
    /\ IdleParent
    /\ IdleFinder
    /\ IdleAtest

\* translate raises e, with arg in its message
TranslateRaise(e, arg) ==
    /\ translate_pc' = "raised"
    /\ raised' = e
    /\ raised_arg' = arg
    /\ UNCHANGED <<test_idx, build_targets, run_commands>>

\* translate going on with the next reference when no test is found
NotFound_skip(test) ==
    /\ test_idx' = test_idx + 1
    /\ UNCHANGED <<translate_pc, raised, raised_arg, build_targets,
                   run_commands>>

\* no test found for the reference test
NotFound(test) == TranslateRaise("NoTestFoundError", test)

\* one iteration of the loop of translate, for the reference tests[test_idx]
TranslateLoop ==
    /\ translate_pc = "running"
    /\ test_idx <= Len(tests)
    /\ LET test == tests[test_idx]
           possible_reference_types == get_test_reference_types(test)
       IN  \E c \in get_test_info(test, possible_reference_types, 1) :
              /\ get_test_info_call' =
                    [test_name |-> test, calls |-> c.calls, result |-> c.result]
              /\ IF c.result.kind = "hang"
                 THEN /\ translate_pc' = "hung"
                      /\ UNCHANGED <<test_idx, build_targets, run_commands,
                                     raised, raised_arg>>
                 ELSE IF c.result.kind = "raise"
                 THEN TranslateRaise(c.result.error, <<>>)
                 ELSE IF c.result.value = NoInfo THEN NotFound(test)
                 ELSE LET targets == generate_build_targets(c.result.value)
                      IN  IF targets.kind = "raise"
                          THEN TranslateRaise(targets.error, <<>>)
                          ELSE /\ build_targets' =
                                    build_targets \cup targets.value
                               /\ run_commands' =
                                    Append(run_commands,
                                           generate_run_command(c.result.value))
                               /\ test_idx' = test_idx + 1
                               /\ UNCHANGED <<translate_pc, raised, raised_arg>>
    /\ module_info' = module_info_get(tests[test_idx])
    /\ UNCHANGED <<repo_files, tests, returned, split_vars,
                   classify_vars, filter_vars, info_vars, parent_vars,
                   finder_vars,
                   atest_vars>>

\* the loop is over: translate returns build_targets and run_commands
TranslateReturn ==
    /\ translate_pc = "running"
    /\ test_idx > Len(tests)
    /\ translate_pc' = "returned"
    /\ returned' = [done |-> TRUE, build_targets |-> build_targets,
                    run_commands |-> run_commands]
    /\ UNCHANGED <<module_info, repo_files, tests, test_idx, build_targets, run_commands,
                   raised, raised_arg, get_test_info_call, split_vars,
                   classify_vars, filter_vars, info_vars, parent_vars,
                   finder_vars,
                   atest_vars>>

\* translate is called again, on the same translator, after it returned or
\* raised
TranslateAgain ==
    /\ translate_pc \in {"returned", "raised"}
    /\ \E k \in 0..MaxTests : tests' \in [1..k -> TestRefs]
    /\ translate_pc' = "running"
    /\ test_idx' = 1
    /\ build_targets' = {}
    /\ run_commands' = <<>>
    /\ raised' = "none"
    /\ raised_arg' = <<>>
    /\ returned' = NoReturn
    /\ get_test_info_call' = NoCall
    /\ UNCHANGED <<module_info, repo_files, split_vars, classify_vars,
                   filter_vars, info_vars, parent_vars, finder_vars,
                   atest_vars>>

NextTranslate == TranslateLoop \/ TranslateReturn \/ TranslateAgain

SpecTranslate == InitTranslate /\ [][NextTranslate]_vars

(***************************************************************************)
(* _find_parent_module_dir applied to every directory and file of the      *)
(* repository, whatever directories hold an AndroidTest.xml.               *)
(***************************************************************************)
\* the files of the repository other than the AndroidTest.xml files
SourceFiles == {f \in RepoFiles : f[Len(f)] # TEST_CONFIG}

InitParent ==
    /\ module_info = ModuleInfoJson
    /\ \E dirs \in SUBSET (RepoDirs \ {<<>>}) :
          repo_files = SourceFiles \cup {Append(d, TEST_CONFIG) : d \in dirs}
    /\ start_dir \in RepoDirs \cup SourceFiles
    /\ parent_dir = NoParent
    /\ NotTranslating
    /\ IdleSplit
    /\ IdleClassify
    /\ IdleFlattenFilters
    /\ IdleFlattenInfos
    /\ IdleFinder
    /\ IdleAtest

FindParentModuleDir ==
    /\ parent_dir = NoParent
    /\ parent_dir' = find_parent_module_dir(start_dir)
    /\ UNCHANGED <<start_dir, split_vars, classify_vars, filter_vars,
                   info_vars, translate_vars, finder_vars,
                   atest_vars>>

NextParent == FindParentModuleDir

SpecParent == InitParent /\ [][NextParent]_vars

(***************************************************************************)
(* The finders of ModuleFinder, and the module finder of CLITranslator,    *)
(* each called once on the references below.                               *)
(***************************************************************************)
\* the modules of the index and one that is not in it
FinderModuleNames == DOMAIN ModuleIndex \cup {<<"X">>}

ClassRefs ==
    { <<"C">>, <<"D">>, <<"E">>, <<"F">>, <<"X">>, <<"s", ".", "C">>,
      <<"C", "#", "m">>, <<"C", "#", "m", ",", "n">>,
      <<"C", "#", "m", "#", "n">> }

PackageRefs ==
    { <<"s">>, <<"q">>, <<"x">>, <<"p", ".", "s">>, <<"s", "#", "m">>,
      <<"x", "#", "m">>, <<"s", "#", "m", "#", "n">> }

PathRefs ==
    { <<"p">>, <<"p", "/", "s">>, <<"p", "/", "s", "#", "m">>,
      <<"p", "/", "s", "/", "C">> \o JavaExt,
      <<"p", "/", "s", "/", "C">> \o JavaExt \o <<"#", "m">>,
      <<"q">>, <<"q", "#", "m">>, <<"n">>, <<"n", "/", "E">> \o JavaExt,
      <<"u">>, <<"z">>, <<".", ".", "/", "r", "x">>, <<".">> }

\* MODULE:CLASS and MODULE:PACKAGE references
WithModule(refs) ==
    {m \o <<":">> \o ref : m \in FinderModuleNames, ref \in refs}

\* the module and config a finder is given: none, or those of a module
FinderContexts ==
    {[module_name |-> None, rel_config |-> None]}
        \cup {[module_name |-> m,
               rel_config |-> Append(ModuleIndex[m].path[1], TEST_CONFIG)] :
                m \in {<<"M">>, <<"N">>, <<"V">>}}

InitFinder ==
    /\ module_info = ModuleIndex
    /\ repo_files = RepoFiles
    /\ finder_call = NoFinderCall
    /\ finder_result = NoFinderResult
    /\ NotTranslating
    /\ IdleSplit
    /\ IdleClassify
    /\ IdleFlattenFilters
    /\ IdleFlattenInfos
    /\ IdleParent
    /\ IdleAtest

\* the finder returns or raises result after the calls
FinderCalled(finder, reference, context, result, calls) ==
    /\ finder_call = NoFinderCall
    /\ finder_call' = [finder |-> finder, reference |-> reference,
                       module_name |-> context.module_name,
                       rel_config |-> context.rel_config]
    /\ finder_result' = [done |-> TRUE, result |-> result, calls |-> calls]
    /\ UNCHANGED <<split_vars, classify_vars, filter_vars, info_vars,
                   translate_vars, parent_vars, atest_vars>>

NoContext == [module_name |-> None, rel_config |-> None]

FindTestByModuleName ==
    \E module_name \in FinderModuleNames :
        \E r \in mf_find_test_by_module_name(module_name) :
            FinderCalled("find_test_by_module_name", module_name, NoContext,
                         r, <<>>)

TranslatorFindTestByModuleName ==
    \E module_name \in FinderModuleNames :
        \E r \in find_test_by_module_name(module_name) :
            FinderCalled("_find_test_by_module_name", module_name, NoContext,
                         r, <<>>)

FindTestByClassName ==
    \E class_name \in ClassRefs, context \in FinderContexts :
        \E r \in mf_find_test_by_class_name(class_name, context.module_name,
                                            context.rel_config, FALSE) :
            FinderCalled("find_test_by_class_name", class_name, context, r,
                         <<>>)

FindTestByModuleAndClass ==
    \E module_class \in WithModule(ClassRefs) \cup ClassRefs :
        \E r \in mf_find_test_by_module_and_class(module_class) :
            FinderCalled("find_test_by_module_and_class", module_class,
                         NoContext, r.result, r.calls)

FindTestByPackageName ==
    \E package \in PackageRefs, context \in FinderContexts :
        \E r \in mf_find_test_by_package_name(package, context.module_name,
                                              context.rel_config) :
            FinderCalled("find_test_by_package_name", package, context, r,
                         <<>>)

FindTestByModuleAndPackage ==
    \E module_package \in WithModule(PackageRefs) \cup PackageRefs :
        \E r \in mf_find_test_by_module_and_package(module_package) :
            FinderCalled("find_test_by_module_and_package", module_package,
                         NoContext, r.result, r.calls)

FindTestByPath ==
    \E path \in PathRefs :
        \E r \in mf_find_test_by_path(path) :
            FinderCalled("find_test_by_path", path, NoContext, r, <<>>)

NextFinder ==
    \/ FindTestByModuleName
    \/ TranslatorFindTestByModuleName
    \/ FindTestByClassName
    \/ FindTestByModuleAndClass
    \/ FindTestByPackageName
    \/ FindTestByModuleAndPackage
    \/ FindTestByPath

SpecFinder == InitFinder /\ [][NextFinder]_vars

(***************************************************************************)
(* _get_module_name applied to every directory below, over every module    *)
(* index of up to three modules.                                           *)
(***************************************************************************)
\* what module-info.json can have for a module: no 'path', or a 'path' list
\* of one or two directories
PathEntries ==
    { [class |-> <<"APPS">>],
      [path |-> << << <<"p">> >> >>],
      [path |-> << << <<"q">> >> >>],
      [path |-> << << <<"p">> >>, << <<"q">> >> >>] }

\* the module-info.json files with modules among M, N and L
ModuleIndexes ==
    UNION {[names -> PathEntries] :
              names \in SUBSET {<<"M">>, <<"N">>, <<"L">>}}

RelModulePaths == { << <<"p">> >>, << <<"q">> >>, << <<"z">> >> }

InitModuleName ==
    /\ module_info \in ModuleIndexes
    /\ repo_files = RepoFiles
    /\ finder_call = NoFinderCall
    /\ finder_result = NoFinderResult
    /\ NotTranslating
    /\ IdleSplit
    /\ IdleClassify
    /\ IdleFlattenFilters
    /\ IdleFlattenInfos
    /\ IdleParent
    /\ IdleAtest

GetModuleName ==
    \E rel_module_path \in RelModulePaths :
        \E r \in get_module_name(rel_module_path) :
            FinderCalled("_get_module_name", rel_module_path, NoContext, r,
                         <<>>)

NextModuleName == GetModuleName

SpecModuleName == InitModuleName /\ [][NextModuleName]_vars

(***************************************************************************)
(* _process_connection on every bounded sequence of events, the bytes      *)
(* received in every possible way.                                         *)
(***************************************************************************)
\* the frame of the actions of the runner and of main
translator_vars == <<split_vars, classify_vars, filter_vars, info_vars,
                     translate_vars, parent_vars, finder_vars>>

ConnEventNames == { <<"A">>, <<"A", "B">> }

\* json texts: an empty object, one with a member, one with an object in it
ConnEventData == { <<"{", "}">>, <<"{", "a", "}">>, <<"{", "a", "{", "}", "}">> }

InitConnection ==
    /\ \E k \in 0..MaxEvents :
           conn_events \in [1..k -> {Event(n, d) : n \in ConnEventNames,
                                                   d \in ConnEventData}]
    /\ conn_unread = socket_data(conn_events)
    /\ conn_buf = <<>>
    /\ conn_processed = <<>>
    /\ conn_pc = "open"
    /\ IdleTranslator
    /\ IdleEvents
    /\ IdlePolling
    /\ IdleRunTests
    /\ IdleBugDetector
    /\ IdleMain

\* conn.recv(SOCKET_BUFFER) returns some of the bytes sent and not yet read;
\* they are added to buf and the events found in buf are processed
RecvData ==
    /\ conn_pc = "open"
    /\ conn_unread # <<>>
    /\ \E n \in 1..Len(conn_unread) :
           LET data == SubSeq(conn_unread, 1, n)
               after == process_buffer(conn_buf \o data, conn_processed)
           IN  /\ conn_unread' = SubSeq(conn_unread, n + 1, Len(conn_unread))
               /\ conn_buf' = after.buf
               /\ conn_processed' = after.processed
    /\ UNCHANGED <<conn_events, conn_pc, translator_vars, event_vars,
                   poll_vars, run_vars, bug_vars, main_vars>>

\* TradeFed closed the connection and everything was read: recv returns the
\* empty string and the connection is closed
RecvEmpty ==
    /\ conn_pc = "open"
    /\ conn_unread = <<>>
    /\ conn_pc' = "closed"
    /\ UNCHANGED <<conn_events, conn_unread, conn_buf, conn_processed,
                   translator_vars, event_vars, poll_vars, run_vars, bug_vars, main_vars>>

NextConnection == RecvData \/ RecvEmpty

SpecConnection == InitConnection /\ [][NextConnection]_vars

(***************************************************************************)
(* _process_event on every bounded sequence of events of one test run.     *)
(***************************************************************************)
TestNames == {"C#a", "C#b"}
Traces == {"x", "y"}

\* the data of an event: the members _process_event reads, the reason of a
\* run failure and the cause of an invocation failure in trace
EventData(name, trace) ==
    [moduleName |-> "m", testCount |-> 2, name |-> name, trace |-> trace,
     start_time |-> 1]

EventInputs ==
    {[event_name |-> n, event_data |-> EventData(NoName, NoName)] :
        n \in {"TEST_MODULE_STARTED", "TEST_MODULE_ENDED", "TEST_RUN_STARTED",
               "TEST_RUN_ENDED"}}
    \cup {[event_name |-> n, event_data |-> EventData(t, NoName)] :
        n \in {"TEST_STARTED", "TEST_ENDED", "TEST_IGNORED"}, t \in TestNames}
    \cup {[event_name |-> "TEST_FAILED", event_data |-> EventData(t, x)] :
        t \in TestNames, x \in Traces}
    \cup {[event_name |-> n, event_data |-> EventData(NoName, "reason")] :
        n \in {"TEST_RUN_FAILED", "INVOCATION_FAILED"}}

InitEvents ==
    /\ ev_count = 0
    /\ ev_last = NoEvent
    /\ ev_stack = <<>>
    /\ ev_state = CONNECTION_STATE
    /\ ev_calls = <<>>
    /\ ev_pc = "running"
    /\ ev_open = <<>>
    /\ ev_closed = NoneReceived
    /\ IdleTranslator
    /\ IdleConnection
    /\ IdlePolling
    /\ IdleRunTests
    /\ IdleBugDetector
    /\ IdleMain

\* the failures and ignores received since a START event, one more received
Received(since, event) ==
    CASE event.event_name = "TEST_FAILED" ->
            [since EXCEPT !.failed =
                [n \in DOMAIN since.failed \cup {event.event_data.name} |->
                    IF n = event.event_data.name THEN event.event_data.trace
                    ELSE since.failed[n]]]
      [] event.event_name = "TEST_IGNORED" ->
            [since EXCEPT !.ignored = since.ignored \cup {event.event_data.name}]
      [] OTHER -> since

\* one call of _process_event, with any event
ProcessEvent ==
    /\ ev_pc = "running"
    /\ ev_count < MaxProcessed
    /\ \E event \in EventInputs :
           LET after == process_event(event.event_name, event.event_data,
                                      ev_state, ev_stack)
               open == [i \in DOMAIN ev_open |-> Received(ev_open[i], event)]
           IN  /\ ev_last' = event
               /\ ev_state' = after.state
               /\ ev_stack' = after.event_stack
               /\ ev_calls' = after.calls
               /\ ev_pc' = IF after.raised THEN "raised" ELSE "running"
               /\ IF after.raised
                  THEN UNCHANGED <<ev_open, ev_closed>>
                  ELSE IF event.event_name \in START_EVENTS
                  THEN /\ ev_open' = Append(open, NoneReceived)
                       /\ UNCHANGED ev_closed
                  ELSE IF event.event_name \in END_EVENTS
                  THEN /\ ev_open' = SubSeq(open, 1, Len(open) - 1)
                       /\ ev_closed' = open[Len(open)]
                  ELSE /\ ev_open' = open
                       /\ UNCHANGED ev_closed
    /\ ev_count' = ev_count + 1
    /\ UNCHANGED <<translator_vars, conn_vars, poll_vars, run_vars, bug_vars, main_vars>>

NextEvents == ProcessEvent

SpecEvents == InitEvents /\ [][NextEvents]_vars

(***************************************************************************)
(* _exec_with_tf_polling with a socket function that returns or times out  *)
(* and a TradeFed subprocess that may exit at any moment.                  *)
(***************************************************************************)
SocketValues == {"conn", "data"}
ReturnCodes == {0, 1, 7}

InitPolling ==
    /\ poll_pc = "calling"
    /\ poll_socket = NoSocketCall
    /\ poll_observed = NoReturnCode
    /\ poll_result = NoSocketCall
    /\ poll_timeouts = 0
    /\ tf_returncode = NoReturnCode
    /\ IdleTranslator
    /\ IdleConnection
    /\ IdleEvents
    /\ IdleRunTests
    /\ IdleBugDetector
    /\ IdleMain

\* socket_func() returns a value or raises socket.timeout
SocketFunc ==
    /\ poll_pc = "calling"
    /\ \E outcome \in {Return(v) : v \in SocketValues} \cup {SocketTimeout} :
           /\ poll_socket' = outcome
           /\ poll_pc' = after_socket_func(outcome)
           /\ poll_result' = IF after_socket_func(outcome) = "returned"
                             THEN outcome ELSE poll_result
           /\ poll_timeouts' = IF outcome = SocketTimeout
                                  /\ poll_timeouts < MaxTimeouts
                               THEN poll_timeouts + 1 ELSE poll_timeouts
    /\ UNCHANGED <<poll_observed, tf_returncode>>
    /\ UNCHANGED <<translator_vars, conn_vars, event_vars, run_vars, bug_vars, main_vars>>

\* tf_subproc.poll() after a timeout
PollSubprocess ==
    /\ poll_pc = "polling"
    /\ poll_observed' = tf_returncode
    /\ poll_pc' = after_poll(tf_returncode)
    /\ poll_result' = IF after_poll(tf_returncode) = "raised"
                      THEN Raise("TradeFedExitError", tf_returncode)
                      ELSE poll_result
    /\ UNCHANGED <<poll_socket, poll_timeouts, tf_returncode>>
    /\ UNCHANGED <<translator_vars, conn_vars, event_vars, run_vars, bug_vars, main_vars>>

\* the TradeFed subprocess exits while atest waits
SubprocessExits ==
    /\ poll_pc \in {"calling", "polling"}
    /\ tf_returncode = NoReturnCode
    /\ \E code \in ReturnCodes : tf_returncode' = <<code>>
    /\ UNCHANGED <<poll_pc, poll_socket, poll_observed, poll_result,
                   poll_timeouts>>
    /\ UNCHANGED <<translator_vars, conn_vars, event_vars, run_vars, bug_vars, main_vars>>

NextPolling == SocketFunc \/ PollSubprocess \/ SubprocessExits

SpecPolling == InitPolling /\ [][NextPolling]_vars

\* socket_func has a timeout, so each call of it ends, and the loop goes on
\* as long as atest runs
SpecPollingFair ==
    SpecPolling /\ WF_vars(SocketFunc) /\ WF_vars(PollSubprocess)

(***************************************************************************)
(* run_tests_pretty and run_tests_raw with every extra_args that asks for  *)
(* no, baseline or new metrics.                                            *)
(***************************************************************************)
ExtraArgs ==
    UNION {[keys -> 1..MaxIterations] :
              keys \in SUBSET {PRE_PATCH_ITERATIONS, POST_PATCH_ITERATIONS}}

InitRunTests ==
    /\ run_given \in ExtraArgs
    /\ run_extra_args = run_given
    /\ run_pretty \in BOOLEAN
    /\ run_pc = "called"
    /\ run_iterations = 0
    /\ run_launched = <<>>
    /\ run_ret_code = 0
    /\ IdleTranslator
    /\ IdleConnection
    /\ IdleEvents
    /\ IdlePolling
    /\ IdleBugDetector
    /\ IdleMain

\* iterations = self._generate_iterations(extra_args)
GenerateIterations ==
    /\ run_pc = "called"
    /\ run_iterations' = generate_iterations(run_extra_args).iterations
    /\ run_extra_args' = generate_iterations(run_extra_args).extra_args
    /\ run_pc' = "looping"
    /\ UNCHANGED <<run_given, run_pretty, run_launched, run_ret_code>>
    /\ UNCHANGED <<translator_vars, conn_vars, event_vars, poll_vars,
                   bug_vars, main_vars>>

\* one iteration: the run command is generated, TradeFed is started with it
\* and its return code is or-ed into ret_code (0 or 1 here)
RunIteration ==
    /\ run_pc = "looping"
    /\ Len(run_launched) < run_iterations
    /\ run_launched' =
           Append(run_launched, generate_run_commands(run_extra_args, run_pretty))
    /\ \E returncode \in {0, 1} :
           run_ret_code' = IF returncode = 1 THEN 1 ELSE run_ret_code
    /\ UNCHANGED <<run_given, run_extra_args, run_pretty, run_pc,
                   run_iterations>>
    /\ UNCHANGED <<translator_vars, conn_vars, event_vars, poll_vars,
                   bug_vars, main_vars>>

\* return ret_code
RunTestsReturn ==
    /\ run_pc = "looping"
    /\ Len(run_launched) = run_iterations
    /\ run_pc' = "returned"
    /\ UNCHANGED <<run_given, run_extra_args, run_pretty, run_iterations,
                   run_launched, run_ret_code>>
    /\ UNCHANGED <<translator_vars, conn_vars, event_vars, poll_vars,
                   bug_vars, main_vars>>

NextRunTests == GenerateIterations \/ RunIteration \/ RunTestsReturn

SpecRunTests == InitRunTests /\ [][NextRunTests]_vars

(***************************************************************************)
(* BugDetector constructed after each of some atest commands, on the same  *)
(* history file.                                                           *)
(***************************************************************************)
DetectArgs == DETECT_OPTION_FILTER \cup { <<"a">>, <<"b">> }
ExitCodes == {0, 5}

\* no history file, and the history files of earlier commands
HistoryFiles ==
    { NoHistory,
      update_history(NoHistory, <<"a">>, 0, 0),
      update_history(update_history(NoHistory, <<"a">>, 5, 0),
                     <<"a", " ", "b">>, 0, 0) }

InitBugDetector ==
    /\ history_file \in HistoryFiles
    /\ bug_runs = 0
    /\ bug_detector = NoDetector
    /\ IdleTranslator
    /\ IdleConnection
    /\ IdleEvents
    /\ IdlePolling
    /\ IdleRunTests
    /\ IdleMain

\* BugDetector(argv, exit_code, history_file)
NewBugDetector ==
    /\ bug_runs < MaxRuns
    /\ \E k \in 0..MaxArgs : \E argv \in [1..k -> DetectArgs] :
       \E exit_code \in ExitCodes :
           LET detect_key == get_detect_key(argv)
               history == history_file
           IN  /\ bug_detector' =
                      [argv |-> argv, detect_key |-> detect_key,
                       exit_code |-> exit_code, read |-> history,
                       caught_result |->
                           detect_bug_caught(history, detect_key, exit_code)]
               /\ history_file' =
                      update_history(history, detect_key, exit_code,
                                     bug_runs + 1)
    /\ bug_runs' = bug_runs + 1
    /\ UNCHANGED <<translator_vars, conn_vars, event_vars, poll_vars,
                   run_vars, main_vars>>

NextBugDetector == NewBugDetector

SpecBugDetector == InitBugDetector /\ [][NextBugDetector]_vars

(***************************************************************************)
(* main with every choice of steps, of --info and of regression detection, *)
(* whatever the translator, the build and the test runners return.         *)
(***************************************************************************)
\* what translate returns: no test, or a test with or without build targets
TranslateResults ==
    { [build_targets |-> {}, test_infos |-> {}],
      [build_targets |-> {}, test_infos |-> {"test_info"}],
      [build_targets |-> {"target"}, test_infos |-> {"test_info"}] }

\* exit codes of the test runners
RunnerExitCodes == {0, 1, 2}

InitMain ==
    /\ main_args \in [detect_regression : 0..2, info : BOOLEAN,
                      steps : SUBSET ALL_STEPS]
    /\ main_pc = "start"
    /\ main_test_infos = {}
    /\ main_build_targets = {}
    /\ main_steps = {}
    /\ tests_exit_code = EXIT_CODE_SUCCESS
    /\ main_calls = <<>>
    /\ main_returned = <<>>
    /\ IdleTranslator
    /\ IdleConnection
    /\ IdleEvents
    /\ IdlePolling
    /\ IdleRunTests
    /\ IdleBugDetector

MainFrame ==
    UNCHANGED <<translator_vars, conn_vars, event_vars, poll_vars, run_vars,
                bug_vars>>

\* translator.translate(args) and _validate_exec_mode when there are tests to
\* run: main returns when no test is found and exits on a mode conflict
MainTranslate ==
    /\ main_pc = "start"
    /\ IF will_run_tests(main_args)
       THEN \E result \in TranslateResults : \E conflict \in BOOLEAN :
                /\ main_build_targets' = result.build_targets
                /\ main_test_infos' = result.test_infos
                /\ main_calls' = Append(main_calls,
                       IF result.test_infos = {} THEN "translate: no test"
                       ELSE "translate")
                /\ IF result.test_infos = {}
                   THEN /\ main_pc' = "returned"
                        /\ main_returned' = <<EXIT_CODE_TEST_NOT_FOUND>>
                   ELSE IF conflict
                   THEN /\ main_pc' = "returned"
                        /\ main_returned' = <<EXIT_CODE_ERROR>>
                   ELSE /\ main_pc' = "translated"
                        /\ UNCHANGED main_returned
       ELSE /\ main_pc' = "translated"
            /\ UNCHANGED <<main_build_targets, main_test_infos, main_calls,
                           main_returned>>
    /\ UNCHANGED <<main_args, main_steps, tests_exit_code>>
    /\ MainFrame

\* --info prints and returns; otherwise the build targets of the runners are
\* added and the steps are chosen
MainPrepare ==
    /\ main_pc = "translated"
    /\ IF main_args.info
       THEN /\ main_pc' = "returned"
            /\ main_returned' = <<EXIT_CODE_SUCCESS>>
            /\ UNCHANGED <<main_build_targets, main_steps>>
       ELSE /\ \E runner_reqs \in
                    IF main_test_infos = {} THEN {{}}
                    ELSE {{}, {"tradefed-core"}} :
               \E regression_reqs \in
                    IF main_args.detect_regression > 0 THEN {{}, {"regression"}}
                    ELSE {{}} :
                   main_build_targets' =
                       main_build_targets \cup runner_reqs \cup regression_reqs
            /\ main_steps' = steps_of(main_args)
            /\ main_pc' = "build"
            /\ UNCHANGED main_returned
    /\ UNCHANGED <<main_args, main_test_infos, tests_exit_code, main_calls>>
    /\ MainFrame

\* the build step: atest_utils.build when there is something to build
MainBuild ==
    /\ main_pc = "build"
    /\ IF build_wanted(main_build_targets, main_steps)
       THEN \E success \in BOOLEAN :
                /\ main_build_targets' =
                       main_build_targets \cup {"module_info_target"}
                /\ main_calls' = Append(main_calls,
                       IF success THEN "build: success" ELSE "build: failure")
                /\ main_pc' = after_build(success)
                /\ main_returned' =
                       IF after_build(success) = "returned"
                       THEN <<EXIT_CODE_BUILD_FAILURE>> ELSE main_returned
                /\ UNCHANGED main_steps
       ELSE /\ main_steps' = IF TEST_STEP \notin main_steps
                             THEN main_steps \cup {TEST_STEP} ELSE main_steps
            /\ main_pc' = "test"
            /\ UNCHANGED <<main_build_targets, main_calls, main_returned>>
    /\ UNCHANGED <<main_args, main_test_infos, tests_exit_code>>
    /\ MainFrame

\* the test step: test_runner_handler.run_all_tests
MainRunAllTests ==
    /\ main_pc = "test"
    /\ IF TEST_STEP \in main_steps
       THEN \E exit_code \in RunnerExitCodes :
                /\ tests_exit_code' = exit_code
                /\ main_calls' = Append(main_calls,
                       IF exit_code = 0 THEN "run_all_tests: 0"
                       ELSE "run_all_tests: not 0")
       ELSE UNCHANGED <<tests_exit_code, main_calls>>
    /\ main_pc' = "regression"
    /\ UNCHANGED <<main_args, main_test_infos, main_build_targets, main_steps,
                   main_returned>>
    /\ MainFrame

\* regression detection when asked for, and the exit code of main
MainReturn ==
    /\ main_pc = "regression"
    /\ IF main_args.detect_regression > 0
       THEN \E exit_code \in RunnerExitCodes :
                /\ tests_exit_code' =
                       exit_code_of_tests(bit_or(tests_exit_code, exit_code))
                /\ main_calls' = Append(main_calls,
                       IF exit_code = 0 THEN "regression run_tests: 0"
                       ELSE "regression run_tests: not 0")
       ELSE /\ tests_exit_code' = exit_code_of_tests(tests_exit_code)
            /\ UNCHANGED main_calls
    /\ main_returned' = <<tests_exit_code'>>
    /\ main_pc' = "returned"
    /\ UNCHANGED <<main_args, main_test_infos, main_build_targets, main_steps>>
    /\ MainFrame

NextMain ==
    MainTranslate \/ MainPrepare \/ MainBuild \/ MainRunAllTests \/ MainReturn

SpecMain == InitMain /\ [][NextMain]_vars

(***************************************************************************)
(* Properties of split_methods.                                            *)
(***************************************************************************)
SplitDone == split_result # NoSplit

\* number of '#' characters of s
NumHash(s) == Cardinality({i \in DOMAIN s : s[i] = "#"})

\* the comma-separated names of s: its maximal comma-free segments
\* (SubSeq(s, i, i - 1) is the empty name between two adjacent commas)
CommaSeparatedNames(s) ==
    {SubSeq(s, i, j) : <<i, j>> \in
        {p \in (1..(Len(s) + 1)) \X (0..Len(s)) :
            /\ p[1] <= p[2] + 1
            /\ \A k \in p[1]..p[2] : s[k] # ","
            /\ (p[1] = 1 \/ s[p[1] - 1] = ",")
            /\ (p[2] = Len(s) \/ s[p[2] + 1] = ",")}}

\* C6: for an input with at most one '#', split_methods returns the text
\* before the '#' and the set of the comma-separated method names after it;
\* with no '#' it returns the input unchanged and an empty method set.
C6_SplitAtMostOneHash ==
    (SplitDone /\ NumHash(user_input) <= 1) =>
        /\ split_result.raised = "none"
        /\ IF NumHash(user_input) = 0
           THEN /\ split_result.ref = user_input
                /\ split_result.methods = {}
           ELSE LET k == CHOOSE i \in DOMAIN user_input : user_input[i] = "#"
                IN  /\ split_result.ref = SubSeq(user_input, 1, k - 1)
                    /\ split_result.methods =
                         CommaSeparatedNames(
                             SubSeq(user_input, k + 1, Len(user_input)))

\* split_methods("A#m,A") returned ("A", {"m", "A"})
C6_Witness ==
    /\ user_input = <<"A", "#", "m", ",", "A">>
    /\ split_result = [ref |-> <<"A">>, methods |-> {<<"m">>, <<"A">>},
                       raised |-> "none"]

\* C7: for an input with two or more '#' characters split_methods raises
\* TooManyMethodsError and returns no reference and no methods.
C7_TooManyMethods ==
    (SplitDone /\ NumHash(user_input) >= 2) =>
        /\ split_result.raised = "TooManyMethodsError"
        /\ split_result.ref = <<>>
        /\ split_result.methods = {}

\* split_methods("A#m,A#m") style input with two clauses has raised
C7_Witness ==
    /\ user_input = <<"A", "#", "m", "#", "m">>
    /\ split_result.raised = "TooManyMethodsError"

(***************************************************************************)
(* Properties of _get_test_reference_types.                                *)
(***************************************************************************)
ClassifyDone == reference_types # NoTypes

\* the part of s after its first ':'
AfterColon(s) == SubSeq(s, IndexOf(s, ":") + 1, Len(s))

\* PREFIX:SUFFIX with no leading '.' and no '/'
IsModuleColonRef(s) ==
    /\ ~StartsWith(s, ".")
    /\ ~Contains(s, "/")
    /\ Contains(s, ":")

\* t occurs in the list types
InList(types, t) == \E i \in DOMAIN types : types[i] = t

\* C8: a reference beginning with '.' is classified as exactly [FILE_PATH],
\* whatever else it contains.
C8_LeadingDotIsFilePath ==
    (ClassifyDone /\ StartsWith(test_reference, ".")) =>
        reference_types = <<"FILE_PATH">>

\* "./a:." has been classified
C8_Witness ==
    /\ test_reference = <<".", "/", "a", ":", ".">>
    /\ reference_types = <<"FILE_PATH">>

\* C9: for name:sub (no leading '.', no '/') where sub contains a '.', the
\* candidates contain MODULE_CLASS and MODULE_PACKAGE, MODULE_CLASS first.
C9_ModuleClassBeforeModulePackage ==
    (ClassifyDone /\ IsModuleColonRef(test_reference)
       /\ Contains(AfterColon(test_reference), ".")) =>
        \E i, j \in DOMAIN reference_types :
            /\ reference_types[i] = "MODULE_CLASS"
            /\ reference_types[j] = "MODULE_PACKAGE"
            /\ i < j

\* "a:a.a" has been classified
C9_Witness ==
    /\ test_reference = <<"a", ":", "a", ".", "a">>
    /\ InList(reference_types, "MODULE_PACKAGE")

\* C10: for PREFIX:SUFFIX (no leading '.', no '/') whose SUFFIX contains no
\* '.', the result is exactly [MODULE_CLASS], whether or not PREFIX contains
\* a '.'.
C10_SuffixWithoutDotIsModuleClassOnly ==
    (ClassifyDone /\ IsModuleColonRef(test_reference)
       /\ ~Contains(AfterColon(test_reference), ".")) =>
        reference_types = <<"MODULE_CLASS">>

FiltersOfClass(fs, c) == {f \in fs : f.class_name = c}

\* C3: if any filter for a class has an empty method set, the result holds
\* exactly one filter for that class and its method set is empty, whatever
\* the number and order of the method-bearing filters of the class.
C3_WholeClassWins ==
    flat_filters.done =>
        \A c \in Range(ClassNames) :
            (\E f \in Range(filters) : f.class_name = c /\ f.methods = {}) =>
                FiltersOfClass(flat_filters.value, c) = {TestFilter(c, {})}

\* a whole-class filter iterated before two method filters of the class
C3_Witness ==
    /\ flat_filters.done
    /\ filters = <<TestFilter("classA", {}), TestFilter("classA", {"Method1"}),
                   TestFilter("classA", {"Method2"})>>
    /\ flat_filters.value = {TestFilter("classA", {})}

\* C4: if all filters for a class carry methods, the result holds exactly
\* one filter for that class, with the union of their method sets; what the
\* result holds for any other class is what flattening that class's filters
\* alone gives.
C4_MethodUnion ==
    flat_filters.done =>
        \A c \in Range(ClassNames) :
            LET of_c == FiltersOfClass(Range(filters), c)
            IN  (of_c # {} /\ \A f \in of_c : f.methods # {}) =>
                  /\ FiltersOfClass(flat_filters.value, c) =
                        {TestFilter(c, UNION {f.methods : f \in of_c})}
                  /\ \A d \in Range(ClassNames) \ {c} :
                        LET is_d(f) == f.class_name = d
                        IN  FiltersOfClass(flat_filters.value, d) =
                              flatten_test_filters(SelectSeq(filters, is_d))

\* two method filters of classA and one of classB
C4_Witness ==
    /\ flat_filters.done
    /\ filters = <<TestFilter("classA", {"Method1"}),
                   TestFilter("classB", {"Method1"}),
                   TestFilter("classA", {"Method2"})>>
    /\ flat_filters.value = {TestFilter("classA", {"Method1", "Method2"}),
                             TestFilter("classB", {"Method1"})}

(***************************************************************************)
(* Properties of _flatten_test_infos.                                      *)
(***************************************************************************)
\* the members of the input with test name n
MembersOf(n) == {i \in DOMAIN test_infos : test_infos[i].test_name = n}

\* the merged TestInfos of the result with test name n
MergedOf(n) == {r \in flat_infos.value : r.test_name = n}

\* C1: when at least one of the descriptors sharing a test_name has no
\* filter, the merged descriptor has an empty filter set and its
\* build_targets is the union of the build_targets of all those
\* descriptors, wherever the filter-less one stands in the iteration order.
C1_NoFilterMemberWins ==
    flat_infos.done =>
        \A n \in Range(ModuleNames) :
            (\E i \in MembersOf(n) : ~has_filters(test_infos[i].data)) =>
                /\ Cardinality(MergedOf(n)) = 1
                /\ \A r \in MergedOf(n) :
                      /\ r.data[TI_FILTER] = {}
                      /\ r.build_targets =
                           UNION {test_infos[i].build_targets : i \in MembersOf(n)}

\* a filter-less TestInfo iterated between two method-filtered ones of the
\* same module
C1_Witness ==
    /\ flat_infos.done
    /\ Len(test_infos) = 3
    /\ \A i \in 1..3 : test_infos[i].test_name = "Module1"
    /\ has_filters(test_infos[1].data)
    /\ test_infos[1].build_targets = {"target1"}
    /\ test_infos[2].data = EmptyDict
    /\ test_infos[2].build_targets = {"target2"}
    /\ has_filters(test_infos[3].data)
    /\ \E r \in flat_infos.value :
          r.data[TI_FILTER] = {} /\ r.build_targets = {"target1", "target2"}

\* C5 as stated: descriptors are grouped by (test_name, test_runner), so
\* every member of the input is part of a merged descriptor of its own
\* test_name and test_runner.
C5_GroupedByNameAndRunner ==
    flat_infos.done =>
        \A i \in DOMAIN test_infos :
            \E r \in flat_infos.value :
                /\ r.test_name = test_infos[i].test_name
                /\ r.test_runner = test_infos[i].test_runner

\* C5 as amended: descriptors are grouped by test_name alone; the members
\* sharing a test_name are merged into one descriptor whatever their
\* test_runners, and its test_runner is that of the last of them in the
\* iteration order.
C5_GroupedByNameLastRunner ==
    flat_infos.done =>
        \A n \in Range(ModuleNames) :
            IF MembersOf(n) = {} THEN MergedOf(n) = {}
            ELSE LET last == CHOOSE i \in MembersOf(n) :
                                 \A j \in MembersOf(n) : j <= i
                 IN  /\ Cardinality(MergedOf(n)) = 1
                     /\ \A r \in MergedOf(n) :
                           r.test_runner = test_infos[last].test_runner

\* two TestInfos of one module with different runners have been merged
\* into one that carries the runner of the second
C5_Witness ==
    /\ flat_infos.done
    /\ Len(test_infos) = 2
    /\ test_infos[1].test_name = "Module1"
    /\ test_infos[2].test_name = "Module1"
    /\ test_infos[1].test_runner = "AtestTradefedTestRunner"
    /\ test_infos[2].test_runner = "VtsTradefedTestRunner"
    /\ Cardinality(flat_infos.value) = 1
    /\ \A r \in flat_infos.value : r.test_runner = "VtsTradefedTestRunner"

(***************************************************************************)
(* Properties of translate.                                                *)
(***************************************************************************)
\* C2: whatever the list of references, translate returns at most one run
\* entry per test name: no two of the run commands it returns are for the
\* same module.
C2_NoDuplicateRunEntries ==
    translate_pc = "returned" =>
        \A i, j \in DOMAIN run_commands :
            i # j => run_commands[i] # run_commands[j]

(***************************************************************************)
(* Properties of _get_test_info and of translate's error handling.         *)
(***************************************************************************)
\* _get_test_info has been called
DispatchDone == get_test_info_call # NoCall

\* the finder returned a test
Found(outcome) == outcome.kind = "return" /\ outcome.value # NoInfo

\* C12: the finders are called in the order of the classifier's list, none
\* of the kinds that have a finder being skipped; the result is what the
\* first finder that found a test returned, and that call is the last one.
C12_FirstFinderInClassifierOrder ==
    DispatchDone =>
        LET types == get_test_reference_types(get_test_info_call.test_name)
            calls == get_test_info_call.calls
            n == Len(calls)
        IN  /\ \A k \in 1..n :
                  /\ calls[k].index \in DOMAIN types
                  /\ calls[k].ref_type = types[calls[k].index]
                  /\ \A i \in 1..(calls[k].index - 1) :
                        types[i] \in SupportedTypes =>
                            \E h \in 1..(k - 1) : calls[h].index = i
            /\ \A k \in 1..(n - 1) : calls[k].index < calls[k + 1].index
            /\ \A k \in 1..n :
                  Found(calls[k].outcome) =>
                      k = n /\ get_test_info_call.result = calls[k].outcome
            /\ Found(get_test_info_call.result) =>
                  n >= 1 /\ calls[n].outcome = get_test_info_call.result

\* "M" was found as a module and the class finder was not called
C12_Witness ==
    /\ get_test_info_call.test_name = <<"M">>
    /\ get_test_reference_types(<<"M">>) = <<"MODULE", "CLASS">>
    /\ Len(get_test_info_call.calls) = 1
    /\ get_test_info_call.calls[1].ref_type = "MODULE"
    /\ Found(get_test_info_call.result)

\* C13: when every finder called for a reference returned None, translate
\* raises NoTestFoundError naming the reference and returns nothing, neither
\* build targets nor run commands, whatever it found for the references
\* before.
C13_NoTestFoundRaises ==
    (/\ DispatchDone
     /\ get_test_info_call.result = Return(NoInfo)
     /\ \A k \in DOMAIN get_test_info_call.calls :
           get_test_info_call.calls[k].outcome = Return(NoInfo)) =>
        /\ translate_pc = "raised"
        /\ raised = "NoTestFoundError"
        /\ raised_arg = get_test_info_call.test_name
        /\ returned = NoReturn

\* translate(["M", "X"]) raised for "X" after "M" was found
C13_Witness ==
    /\ tests = << <<"M">>, <<"X">> >>
    /\ build_targets # {}
    /\ run_commands # <<>>
    /\ Len(get_test_info_call.calls) = 2
    /\ raised = "NoTestFoundError"
    /\ raised_arg = <<"X">>
    /\ returned = NoReturn

\* C14: an exception raised by a finder called from _get_test_info ends
\* the loop over the reference types and is the exception translate raises.
C14_FinderExceptionsPropagate ==
    DispatchDone =>
        \A k \in DOMAIN get_test_info_call.calls :
            get_test_info_call.calls[k].outcome.kind = "raise" =>
                /\ k = Len(get_test_info_call.calls)
                /\ translate_pc = "raised"
                /\ raised = get_test_info_call.calls[k].outcome.error

(***************************************************************************)
(* Properties of _find_parent_module_dir.                                  *)
(***************************************************************************)
\* the directory is the root directory or a directory below it
InsideRoot(dir) == isdir(dir) /\ IsPrefix(root_dir, dir)

\* the lengths of the prefixes of dir, below the root, that are directories
\* with an AndroidTest.xml
ModuleDirsAbove(dir) ==
    {k \in (Len(root_dir) + 1)..Len(dir) :
        isfile(Append(SubSeq(dir, 1, k), TEST_CONFIG))}

\* C20: from a directory inside the root, _find_parent_module_dir returns,
\* relative to the root, the nearest directory with an AndroidTest.xml among
\* the start directory and the directories above it below the root, and
\* raises TestWithNoModuleError when there is none.
C20_NearestModuleDirBelowRoot ==
    (parent_dir # NoParent /\ InsideRoot(start_dir)) =>
        LET found == ModuleDirsAbove(start_dir)
        IN  IF found = {}
            THEN parent_dir = Raise("TestWithNoModuleError", <<>>)
            ELSE parent_dir =
                   Return(SubSeq(start_dir, Len(root_dir) + 1,
                                 CHOOSE k \in found : \A j \in found : j <= k))

\* from /r/p/s, with an AndroidTest.xml in /r and /r/p and none in /r/p/s,
\* the module directory found is p
C20_Witness ==
    /\ start_dir = << <<"r">>, <<"p">>, <<"s">> >>
    /\ isfile(<< <<"r">>, TEST_CONFIG >>)
    /\ isfile(<< <<"r">>, <<"p">>, TEST_CONFIG >>)
    /\ ~isfile(<< <<"r">>, <<"p">>, <<"s">>, TEST_CONFIG >>)
    /\ parent_dir = Return(<< <<"p">> >>)

(***************************************************************************)
(* Properties of the ModuleFinder.                                         *)
(***************************************************************************)
\* the finder has been called and has returned or raised
FinderDone(finder) == finder_result.done /\ finder_call.finder = finder

\* the module of a MODULE:CLASS or MODULE:PACKAGE reference
LeftModule(reference) == StrSplit(reference, ":")[1]

\* the module is in the module index and its entry is testable
KnownTestable(module_name) == is_testable_module(get_module_info(module_name))

\* C15: for a reference 'M:C' whose M is not a known testable module,
\* find_test_by_module_and_class returns none and calls only the module
\* finder, never the class finder.
C15_BadModuleNeverFallsThrough ==
    (/\ FinderDone("find_test_by_module_and_class")
     /\ CountColons(finder_call.reference) = 1
     /\ ~KnownTestable(LeftModule(finder_call.reference))) =>
        /\ finder_result.result = Return(NoTest)
        /\ finder_result.calls = <<"find_test_by_module_name">>

\* 'X:C' with no module X returned none although the class finder finds C
C15_Witness ==
    /\ FinderDone("find_test_by_module_and_class")
    /\ finder_call.reference = <<"X", ":", "C">>
    /\ ~is_module(<<"X">>)
    /\ \E r \in mf_find_test_by_class_name(<<"C">>, None, None, FALSE) :
           r.kind = "return" /\ r.value # NoTest
    /\ finder_result.result = Return(NoTest)
    /\ finder_result.calls = <<"find_test_by_module_name">>

\* the two module finders: ModuleFinder.find_test_by_module_name and
\* CLITranslator._find_test_by_module_name
ModuleFinderDone ==
    \/ FinderDone("find_test_by_module_name")
    \/ FinderDone("_find_test_by_module_name")

\* the value with which the finder called returns None
NoneOfFinder ==
    IF finder_call.finder = "_find_test_by_module_name"
    THEN NoInfo ELSE NoTest

\* C16: a module finder returns a descriptor only for a name whose entry
\* is in the module index and is testable, and returns none for a name
\* that is absent or whose entry is not testable.
C16_ModuleFinderFailsClosed ==
    ModuleFinderDone =>
        (~KnownTestable(finder_call.reference) =>
            finder_result.result = Return(NoneOfFinder))

\* the MODULES-IN targets of the paths of the module
PresenceMarkers(module_name) ==
    {modules_in(module_path) : module_path \in Range(get_paths(module_name))}

\* the finder returned a descriptor
ReturnedTest ==
    finder_result.result.kind = "return" /\ finder_result.result.value # NoTest

\* C17 as stated: for every known testable module name, vts-only and
\* robolectric modules included, find_test_by_module_name returns a
\* descriptor whose build_targets contain the MODULES-IN target of the
\* module's path.
C17_PresenceMarkerOfEveryModule ==
    (/\ FinderDone("find_test_by_module_name")
     /\ KnownTestable(finder_call.reference)) =>
        /\ ReturnedTest
        /\ PresenceMarkers(finder_call.reference)
               \subseteq finder_result.result.value.build_targets

\* C17 amended: for a known testable module that is neither vts-only nor
\* robolectric, a descriptor find_test_by_module_name returns has the
\* MODULES-IN target of each path of the module among its build_targets;
\* the descriptor of a vts-only module has 'vts-test-core' and the module
\* itself, and the descriptor of a robolectric module has no build target.
C17_PresenceMarkerUnlessVtsOrRobolectric ==
    (/\ FinderDone("find_test_by_module_name")
     /\ KnownTestable(finder_call.reference)) =>
        /\ finder_result.result # Return(NoTest)
        /\ ReturnedTest =>
             LET module_name == finder_call.reference
                 targets == finder_result.result.value.build_targets
             IN  IF is_vts_module(module_name)
                 THEN {<<"vts-test-core">>, module_name} \subseteq targets
                 ELSE IF is_robolectric_test(module_name)
                 THEN targets = {}
                 ELSE /\ PresenceMarkers(module_name) # {}
                      /\ PresenceMarkers(module_name) \subseteq targets

\* the descriptor of module M of directory p, which is neither vts-only nor
\* robolectric, has MODULES-IN-p
C17_Witness ==
    /\ FinderDone("find_test_by_module_name")
    /\ finder_call.reference = <<"M">>
    /\ ~is_vts_module(<<"M">>)
    /\ ~is_robolectric_test(<<"M">>)
    /\ ReturnedTest
    /\ <<"MODULES-IN-", "p">> \in finder_result.result.value.build_targets

\* find_test_by_class_name was given a module and its config, did not find
\* the class file under the directory of the config, found it by the search
\* from the root and returned a descriptor
FoundOutsideModule ==
    /\ FinderDone("find_test_by_class_name")
    /\ finder_call.module_name # None
    /\ finder_call.rel_config # None
    /\ \A r \in find_class_file(root_dir \o dirname(finder_call.rel_config),
                                split_methods(finder_call.reference).ref,
                                FALSE) : r = Return(None)
    /\ ReturnedTest

\* C18 as stated: the test_name and the config of a descriptor for a class
\* file found outside the given module are those derived from the place of
\* the file, as they are when no module is given.
C18_FallbackRederivesModule ==
    FoundOutsideModule =>
        \E r \in mf_find_test_by_class_name(finder_call.reference, None, None,
                                            FALSE) :
            /\ r.kind = "return"
            /\ r.value.test_name = finder_result.result.value.test_name
            /\ r.value.data[TI_REL_CONFIG]
                   = finder_result.result.value.data[TI_REL_CONFIG]

\* C18 amended: the descriptor for a class file found outside the given
\* module keeps the given module as test_name and the given config (or the
\* test_config the index has for the given module); only its filter, the
\* qualified class name, comes from the file found.
C18_FallbackKeepsGivenModule ==
    FoundOutsideModule =>
        LET found == finder_result.result.value
            split == split_methods(finder_call.reference)
        IN  /\ found.test_name =
                   IF is_robolectric_test(finder_call.module_name)
                   THEN get_robolectric_test_name(finder_call.module_name)
                   ELSE finder_call.module_name
            /\ found.data[TI_REL_CONFIG] =
                   get_module_test_config(finder_call.module_name,
                                          finder_call.rel_config)
            /\ \E p \in find_class_file(root_dir, split.ref, FALSE) :
                   /\ p.kind = "return"
                   /\ p.value # None
                   /\ found.data[TI_FILTER] =
                          {TestFilter(
                               get_fully_qualified_class_name(p.value).value,
                               split.methods)}

\* class C, of /r/p/s in module M, looked for with module N and q's config:
\* the descriptor is for N with q's config and the filter s.C
C18_Witness ==
    /\ FoundOutsideModule
    /\ finder_call.reference = <<"C">>
    /\ finder_call.module_name = <<"N">>
    /\ Return(<<"M">>) \in determine_testable_module(<< <<"p">> >>)
    /\ finder_result.result.value.test_name = <<"N">>
    /\ finder_result.result.value.data[TI_REL_CONFIG] = << <<"q">>, TEST_CONFIG >>
    /\ finder_result.result.value.data[TI_FILTER]
           = {TestFilter(<<"s", ".", "C">>, {})}

\* the number of '#' in the reference
CountHashes(reference) ==
    Cardinality({i \in DOMAIN reference : reference[i] = "#"})

\* the finder raised MethodWithoutClassError
MethodWithoutClass ==
    /\ finder_result.result.kind = "raise"
    /\ finder_result.result.error = "MethodWithoutClassError"

\* a descriptor the finder returned has no filter with methods
NoMethodsInFilters ==
    ReturnedTest =>
        \A f \in finder_result.result.value.data[TI_FILTER] : f.methods = {}

\* a package finder was called with a reference that has one '#'
PackageWithMethods ==
    \/ /\ FinderDone("find_test_by_package_name")
       /\ CountHashes(finder_call.reference) = 1
    \/ /\ FinderDone("find_test_by_module_and_package")
       /\ CountColons(finder_call.reference) = 1
       /\ CountHashes(finder_call.reference) = 1

\* find_test_by_path was given methods and the path of a directory that it
\* resolves as a package: a directory below the module directory, of a
\* module without generated config, with a java file that has a package
PackageDirWithMethods ==
    /\ FinderDone("find_test_by_path")
    /\ LET split == split_methods(finder_call.reference)
           real == realpath(split.ref)
           parent == utils_find_parent_module_dir(real)
       IN  /\ split.raised = "none"
           /\ split.methods # {}
           /\ isdir(real)
           /\ parent.kind = "return"
           /\ parent.value # <<>>
           /\ parent.value # relpath(real, root_dir)
           /\ \A m \in determine_testable_module(parent.value) :
                  m.kind = "return" /\ ~is_auto_gen_test_config(m.value)
           /\ \E f \in repo_files :
                  /\ dirname(f) = real
                  /\ EndsWith(f[Len(f)], JavaExt)
                  /\ get_package_name(f) # <<>>

\* C19 as stated: find_test_by_package_name and
\* find_test_by_module_and_package raise MethodWithoutClassError for every
\* reference with a '#method' suffix and return no descriptor with methods
\* in a package filter; find_test_by_path raises for a package directory
\* given methods.
C19_PackageMethodsAlwaysRaise ==
    /\ PackageWithMethods => MethodWithoutClass
    /\ (\/ FinderDone("find_test_by_package_name")
        \/ FinderDone("find_test_by_module_and_package")) => NoMethodsInFilters
    /\ PackageDirWithMethods => MethodWithoutClass

\* C19 amended: find_test_by_package_name raises MethodWithoutClassError
\* for every reference with one '#'; find_test_by_module_and_package raises
\* it when the module finder returns a descriptor for the module on the
\* left and returns none, the methods not looked at, when the module is not
\* known or not testable; neither returns a descriptor with methods in a
\* filter; find_test_by_path raises it for a package directory given
\* methods.
C19_PackageMethodsRejected ==
    /\ (FinderDone("find_test_by_package_name") /\ PackageWithMethods) =>
           MethodWithoutClass
    /\ (FinderDone("find_test_by_module_and_package") /\ PackageWithMethods) =>
           LET module_name == LeftModule(finder_call.reference)
           IN  /\ (\A m \in mf_find_test_by_module_name(module_name) :
                       m.kind = "return" /\ m.value # NoTest) =>
                      MethodWithoutClass
               /\ ~KnownTestable(module_name) =>
                      /\ finder_result.result = Return(NoTest)
                      /\ finder_result.calls = <<"find_test_by_module_name">>
    /\ (\/ FinderDone("find_test_by_package_name")
        \/ FinderDone("find_test_by_module_and_package")) => NoMethodsInFilters
    /\ PackageDirWithMethods => MethodWithoutClass

\* 'M:s#m', with M testable and s a package of M's directory, raised
C19_Witness ==
    /\ FinderDone("find_test_by_module_and_package")
    /\ finder_call.reference = <<"M", ":", "s", "#", "m">>
    /\ KnownTestable(<<"M">>)
    /\ \E d \in run_find_cmd_package(root_dir \o << <<"p">> >>, <<"s">>) :
           d.kind = "return" /\ d.value # None
    /\ finder_result.calls = <<"find_test_by_module_name",
                               "find_test_by_package_name">>
    /\ MethodWithoutClass

(***************************************************************************)
(* Properties of _get_module_name.                                         *)
(***************************************************************************)
\* the modules of the index whose first path is the directory
RegisteredIn(rel_module_path) ==
    {name \in DOMAIN module_info :
        /\ get_path(module_info[name]) # <<>>
        /\ get_path(module_info[name])[1] = rel_module_path}

\* C21: _get_module_name raises UnregisteredModuleError, and nothing else,
\* for a directory that is the first path of no module of the index, and
\* returns a module whose first path is the directory when there is one.
C21_UnregisteredModuleRaises ==
    FinderDone("_get_module_name") =>
        IF RegisteredIn(finder_call.reference) = {}
        THEN finder_result.result = Raise("UnregisteredModuleError", <<>>)
        ELSE /\ finder_result.result.kind = "return"
             /\ finder_result.result.value \in RegisteredIn(finder_call.reference)

C23_EveryEventProcessedOnce ==
    /\ Len(conn_processed) <= Len(conn_events)
    /\ conn_processed = SubSeq(conn_events, 1, Len(conn_processed))
    /\ conn_pc = "closed" => conn_processed = conn_events


(***************************************************************************)
(* Properties of _process_event.                                           *)
(***************************************************************************)
\* C24: a START event is pushed on the event stack; an END event is accepted
\* exactly when the stack is not empty and the pair of its top is that END
\* event, and then pops it; otherwise TradeFedExitError is raised; other
\* events leave the stack alone
C24_EventsBalancedLikeBrackets ==
    [][(ev_pc = "running" /\ ev_count' = ev_count + 1) =>
        LET name == ev_last'.event_name
            matches == /\ ev_stack # <<>>
                       /\ EVENT_PAIRS[ev_stack[Len(ev_stack)]] = name
        IN  /\ name \in START_EVENTS =>
                ev_pc' = "running" /\ ev_stack' = Append(ev_stack, name)
            /\ (name \in END_EVENTS /\ matches) =>
                /\ ev_pc' = "running"
                /\ ev_stack' = SubSeq(ev_stack, 1, Len(ev_stack) - 1)
            /\ (name \in END_EVENTS /\ ~matches) => ev_pc' = "raised"
            /\ name \notin START_EVENTS \cup END_EVENTS =>
                ev_pc' = "running" /\ ev_stack' = ev_stack]_vars

\* an END event was accepted while START events stay open, and another END
\* event was refused
C24_Witness ==
    /\ ev_pc = "raised"
    /\ ev_last.event_name = "TEST_MODULE_ENDED"
    /\ ev_stack = <<"TEST_MODULE_STARTED">>
    /\ ev_count = 5

\* the status and trace that the failures and ignores received since the
\* START event of a test give the test
ExpectedStatus(since, name) ==
    IF name \in DOMAIN since.failed
    THEN [status |-> "FAILED", details |-> since.failed[name]]
    ELSE IF name \in since.ignored
    THEN [status |-> "IGNORED", details |-> NoName]
    ELSE [status |-> "PASSED", details |-> NoName]

\* C25: an accepted TEST_ENDED makes one call of process_test_result, for the
\* test it names, with status FAILED and the trace when a TEST_FAILED for
\* that test was received since the matching TEST_STARTED, IGNORED when a
\* TEST_IGNORED was, PASSED otherwise
C25_StatusFromOwnInterval ==
    (ev_pc = "running" /\ ev_last.event_name = "TEST_ENDED") =>
        /\ Len(ev_calls) = 1
        /\ ev_calls[1].test_name = ev_last.event_data.name
        /\ [status |-> ev_calls[1].status, details |-> ev_calls[1].details]
               = ExpectedStatus(ev_closed, ev_last.event_data.name)


(***************************************************************************)
(* Properties of _exec_with_tf_polling.                                    *)
(***************************************************************************)
PollingDone == poll_pc \in {"returned", "raised"}

\* what the loop returned is what the last call of socket_func returned; it
\* raised only after a timeout and a poll() that saw the subprocess exited
PollingOutcome ==
    /\ poll_pc = "returned" =>
           /\ poll_socket \in {Return(v) : v \in SocketValues}
           /\ poll_result = poll_socket
    /\ poll_pc = "raised" =>
           /\ poll_socket = SocketTimeout
           /\ poll_observed # NoReturnCode
           /\ poll_observed = tf_returncode
           /\ poll_result = Raise("TradeFedExitError", poll_observed)
    /\ PollingDone <=> poll_result # NoSocketCall

\* C26: _exec_with_tf_polling returns the value of the first call of
\* socket_func that does not time out, at once, and raises TradeFedExitError
\* when after a timeout poll() shows that the subprocess exited; if the call
\* eventually succeeds or the subprocess eventually exits, the loop ends
C26_PollingEnds ==
    /\ []PollingOutcome
    /\ [][(poll_socket' # poll_socket /\ poll_socket' # SocketTimeout)
              => poll_pc' = "returned"]_vars
    /\ [][(poll_pc = "polling" /\ poll_pc' # "polling") =>
              (poll_pc' = "raised" <=> tf_returncode # NoReturnCode)]_vars
    /\ (<>(tf_returncode # NoReturnCode) \/ <>(poll_pc = "returned"))
           => <>PollingDone

\* the loop raised after several timeouts during which the subprocess ran
C26_Witness ==
    /\ poll_pc = "raised"
    /\ poll_timeouts >= 3
    /\ poll_result = Raise("TradeFedExitError", <<7>>)


(***************************************************************************)
(* Properties of the metrics iterations.                                   *)
(***************************************************************************)
\* the run command carries --metrics-folder with this folder
CarriesMetricsFolder(run_cmd, folder) ==
    \E i \in 1..(Len(run_cmd) - 1) :
        run_cmd[i] = "--metrics-folder" /\ run_cmd[i + 1] = folder

\* TradeFed was started n times, each time with the metrics folder
LaunchedWith(n, folder) ==
    /\ Len(run_launched) = n
    /\ \A i \in 1..n : CarriesMetricsFolder(run_launched[i], folder)

\* C27: with PRE_PATCH_ITERATIONS = n in extra_args TradeFed is started
\* exactly n times and every run command carries --metrics-folder
\* <results_dir>/baseline-metrics; with POST_PATCH_ITERATIONS = n and no
\* baseline asked for, the same with <results_dir>/new-metrics
C27_MetricsIterations ==
    run_pc = "returned" =>
        IF PRE_PATCH_ITERATIONS \in DOMAIN run_given
        THEN LaunchedWith(run_given[PRE_PATCH_ITERATIONS],
                          <<"results_dir", "baseline-metrics">>)
        ELSE POST_PATCH_ITERATIONS \in DOMAIN run_given =>
                 LaunchedWith(run_given[POST_PATCH_ITERATIONS],
                              <<"results_dir", "new-metrics">>)


(***************************************************************************)
(* Termination of _find_parent_module_dir.                                 *)
(***************************************************************************)
\* C28: for every start directory the search ends: it raises ValueError,
\* returns a module directory or raises TestWithNoModuleError; the upward
\* walk from a directory that is_equal_or_sub_dir accepts reaches root_dir
C28_ParentSearchTerminates ==
    parent_dir # NoParent =>
        \/ parent_dir.kind = "return"
        \/ /\ parent_dir.kind = "raise"
           /\ parent_dir.error \in {"ValueError", "TestWithNoModuleError"}


(***************************************************************************)
(* Properties of BugDetector.                                              *)
(***************************************************************************)
\* how often the argument occurs in argv
Occurrences(argv, arg) == Cardinality({i \in DOMAIN argv : argv[i] = arg})

\* the same arguments, in any order, -v and --verbose apart
SameCommand(argv, other) ==
    \A arg \in DetectArgs \ DETECT_OPTION_FILTER :
        Occurrences(argv, arg) = Occurrences(other, arg)

\* C29: caught_result is 1 exactly when the history read holds an entry for
\* the detect key of the command, whose latest_exit_code differs from the
\* exit code; the key does not depend on the order of the arguments nor on
\* -v and --verbose; afterwards the entry of the key holds the exit code and
\* the other entries are as they were
C29_BugCaughtFromHistory ==
    bug_runs > 0 =>
        LET key == bug_detector.detect_key
            before == bug_detector.read
        IN  /\ bug_detector.caught_result = DETECTED_SUCCESS <=>
                   /\ key \in DOMAIN before
                   /\ before[key].latest_exit_code # bug_detector.exit_code
            /\ bug_detector.caught_result \in {DETECTED_SUCCESS, DETECTED_FAIL}
            /\ \A k \in 0..MaxArgs : \A other \in [1..k -> DetectArgs] :
                   SameCommand(bug_detector.argv, other)
                       <=> get_detect_key(other) = key
            /\ DOMAIN history_file = DOMAIN before \cup {key}
            /\ history_file[key].latest_exit_code = bug_detector.exit_code
            /\ \A other \in DOMAIN before \ {key} :
                   history_file[other] = before[other]

\* a command run verbosely, with its arguments in another order, after it
\* had ended with another exit code, and another command in the history
C29_Witness ==
    /\ bug_runs = 2
    /\ bug_detector.argv = << <<"-", "v">>, <<"b">> >>
    /\ bug_detector.caught_result = DETECTED_SUCCESS
    /\ Cardinality(DOMAIN bug_detector.read) = 2


(***************************************************************************)
(* Properties of main.                                                     *)
(***************************************************************************)
\* main called this
Called(call) == \E i \in DOMAIN main_calls : main_calls[i] = call

\* main called a test runner
CalledRunner ==
    \E i \in DOMAIN main_calls :
        main_calls[i] \in {"run_all_tests: 0", "run_all_tests: not 0",
                           "regression run_tests: 0",
                           "regression run_tests: not 0"}

\* main called the first before it called the second
CalledBefore(first, i) == \E j \in 1..(i - 1) : main_calls[j] = first

\* C30: with the build step chosen and targets to build, the test runners
\* are called only after a build that succeeded; after a build that failed
\* main returns EXIT_CODE_BUILD_FAILURE and calls no test runner; when
\* translate finds no test main returns EXIT_CODE_TEST_NOT_FOUND and neither
\* builds nor runs; an exit code of a test runner that is not 0 makes main
\* return EXIT_CODE_TEST_FAILURE
C30_BuildBeforeTest ==
    /\ (CalledRunner /\ build_wanted(main_build_targets, main_steps)) =>
           \A i \in DOMAIN main_calls :
               main_calls[i] \in {"run_all_tests: 0", "run_all_tests: not 0",
                                  "regression run_tests: 0",
                                  "regression run_tests: not 0"}
                   => CalledBefore("build: success", i)
    /\ Called("build: failure") =>
           /\ main_pc = "returned"
           /\ main_returned = <<EXIT_CODE_BUILD_FAILURE>>
           /\ ~CalledRunner
    /\ Called("translate: no test") =>
           /\ main_pc = "returned"
           /\ main_returned = <<EXIT_CODE_TEST_NOT_FOUND>>
           /\ main_calls = <<"translate: no test">>
    /\ (main_pc = "returned"
        /\ (Called("run_all_tests: not 0")
            \/ Called("regression run_tests: not 0"))) =>
           main_returned = <<EXIT_CODE_TEST_FAILURE>>
    /\ main_pc = "returned" <=> main_returned # <<>>

\* the tests were run after a build that succeeded, one failed and main
\* returned
C30_Witness ==
    /\ main_pc = "returned"
    /\ main_calls = <<"translate", "build: success", "run_all_tests: not 0">>
    /\ main_returned = <<EXIT_CODE_TEST_FAILURE>>

====
